---- MODULE Spec2Model ----
(***************************************************************************)
(* farrow-type-cli: the resolution-and-execution core.                     *)
(*                                                                         *)
(*   parse.ts      parseArgv, setOption, expandLongOption, resolveAliases  *)
(*   match.ts      matchCommand, findCommandAtPath, getCommandGroupsInPath *)
(*   validate.ts   prepareArgsInput, prepareOptionsInput, checkConstraints *)
(*   run.ts        run, executeCommand, executeWithHooks and the hook      *)
(*                 runners (src/unnamed/part_003)                          *)
(*   context.ts    als, getContextValue, setContextValue                   *)
(*                 (src/unnamed/part_000)                                  *)
(*                                                                         *)
(* A string is a sequence of one-character strings, so that startsWith,    *)
(* indexOf and slice are computed as the code computes them.               *)
(***************************************************************************)
EXTENDS Integers, Sequences, FiniteSets, TLC

(***************************************************************************)
(* Bounds of the model.                                                    *)
(***************************************************************************)
\* longest hook list declared at the CLI level
MaxHooks == 2

(***************************************************************************)
(* JavaScript string and array primitives.                                 *)
(***************************************************************************)
Min(a, b) == IF a < b THEN a ELSE b

Max(a, b) == IF a > b THEN a ELSE b

\* s.startsWith(p)
StartsWith(s, p) == Len(s) >= Len(p) /\ SubSeq(s, 1, Len(p)) = p

\* s.slice(a, b) for 0 <= a, b (0-based, end exclusive)
Slice(s, a, b) == SubSeq(s, Min(a, Len(s)) + 1, Min(b, Len(s)))

\* s.slice(a)
SliceFrom(s, a) == SubSeq(s, Min(a, Len(s)) + 1, Len(s))

\* s.indexOf(c, from): 0-based position of the first c at or after from, else -1
IndexOfFrom(s, c, from) ==
  LET hits == {i \in 1..Len(s) : i > from /\ s[i] = c}
  IN  IF hits = {} THEN -1 ELSE (CHOOSE i \in hits : \A j \in hits : i <= j) - 1

\* s.indexOf(c)
IndexOf(s, c) == IndexOfFrom(s, c, 0)

\* array.includes(x)
Includes(arr, x) == \E i \in 1..Len(arr) : arr[i] = x

\* array.filter(pred), for the set keep of the elements that pass
RECURSIVE FilterSeq(_, _)
FilterSeq(arr, keep) ==
  IF arr = <<>> THEN <<>>
  ELSE IF Head(arr) \in keep THEN <<Head(arr)>> \o FilterSeq(Tail(arr), keep)
  ELSE FilterSeq(Tail(arr), keep)

\* [...arr].reverse()
RECURSIVE Reverse(_)
Reverse(arr) == IF arr = <<>> THEN <<>> ELSE Reverse(Tail(arr)) \o <<Head(arr)>>

(***************************************************************************)
(* Option values. parseArgv stores a string or true; a repeated key holds  *)
(* an array.  StrVal/TrueVal tag the scalar, [isArray, items] the slot.    *)
(***************************************************************************)
StrVal(s) == [t |-> "str", s |-> s]

TrueVal == [t |-> "true", s |-> <<>>]

Scalar(v) == [isArray |-> FALSE, items |-> <<v>>]

\* index of key in the ordered option record, 0 when absent
KeyIndex(opts, key) ==
  IF \E i \in 1..Len(opts) : opts[i].key = key
  THEN CHOOSE i \in 1..Len(opts) : opts[i].key = key
  ELSE 0

HasKey(opts, key) == KeyIndex(opts, key) # 0

Keys(opts) == [i \in 1..Len(opts) |-> opts[i].key]

KeySet(opts) == {opts[i].key : i \in 1..Len(opts)}

(***************************************************************************)
(* parse.ts                                                                *)
(***************************************************************************)
\* opts is an object literal {}: opts[key] of a key it does not hold itself
\* is what Object.prototype holds under that name, a function for the names
\* below (and for the others Object.prototype has), undefined for any other
InheritedKeys ==
  {<<"c", "o", "n", "s", "t", "r", "u", "c", "t", "o", "r">>,
   <<"t", "o", "S", "t", "r", "i", "n", "g">>,
   <<"v", "a", "l", "u", "e", "O", "f">>,
   <<"h", "a", "s", "O", "w", "n", "P", "r", "o", "p", "e", "r", "t", "y">>}

InheritedVal == [t |-> "inherited", s |-> <<>>]

\* setOption: existing = opts[key]; when it is undefined the value is stored
\* as a scalar; an existing array is appended to; any other existing value
\* (the scalar of a first occurrence, or what the key inherits) becomes the
\* first element of a 2-element array
setOption(opts, key, value) ==
  LET i == KeyIndex(opts, key)
  IN  IF i = 0
      THEN IF key \in InheritedKeys
           THEN Append(opts, [key |-> key,
                              value |-> [isArray |-> TRUE, items |-> <<InheritedVal, value>>]])
           ELSE Append(opts, [key |-> key, value |-> Scalar(value)])
      ELSE [opts EXCEPT ![i].value =
              [isArray |-> TRUE, items |-> Append(opts[i].value.items, value)]]

DASH == "-"

EQ == "="

DD == <<"-", "-">>

\* expandLongOption without the exact-match test of parse.ts:211-214
expandLongOptionPrefixOnly(input, knownOptions) ==
  IF ~StartsWith(input, DD) \/ Len(knownOptions) = 0
  THEN [ok |-> TRUE, arg |-> input]
  ELSE
    LET eqIndex == IndexOf(input, EQ)
        optPart == IF eqIndex > 2 THEN Slice(input, 0, eqIndex) ELSE input
        valPart == IF eqIndex > 2 THEN SliceFrom(input, eqIndex) ELSE <<>>
        prefix  == SliceFrom(optPart, 2)
        matches == FilterSeq(knownOptions,
                     {k \in {knownOptions[i] : i \in 1..Len(knownOptions)} :
                        StartsWith(k, prefix)})
    IN  IF Len(prefix) = 0 THEN [ok |-> TRUE, arg |-> input]
        ELSE IF Len(matches) = 1
          THEN [ok |-> TRUE, arg |-> DD \o matches[1] \o valPart]
        ELSE IF Len(matches) > 1
          THEN [ok |-> FALSE, arg |-> <<optPart>> \o [i \in 1..Len(matches) |-> DD \o matches[i]]]
        ELSE [ok |-> TRUE, arg |-> input]

\* the result of expandLongOption: the rewritten token, or the ambiguity
\* error, whose message names optPart and then every match ('--m', ...)
expandLongOption(input, knownOptions) ==
  IF ~StartsWith(input, DD) \/ Len(knownOptions) = 0
  THEN [ok |-> TRUE, arg |-> input]
  ELSE
    LET eqIndex == IndexOf(input, EQ)
        optPart == IF eqIndex > 2 THEN Slice(input, 0, eqIndex) ELSE input
        valPart == IF eqIndex > 2 THEN SliceFrom(input, eqIndex) ELSE <<>>
        prefix  == SliceFrom(optPart, 2)
        matches == FilterSeq(knownOptions,
                     {k \in {knownOptions[i] : i \in 1..Len(knownOptions)} :
                        StartsWith(k, prefix)})
    IN  IF Len(prefix) = 0 THEN [ok |-> TRUE, arg |-> input]
        ELSE IF Includes(knownOptions, prefix)
          THEN [ok |-> TRUE, arg |-> DD \o prefix \o valPart]
        ELSE IF Len(matches) = 1
          THEN [ok |-> TRUE, arg |-> DD \o matches[1] \o valPart]
        ELSE IF Len(matches) > 1
          THEN [ok |-> FALSE, arg |-> <<optPart>> \o [i \in 1..Len(matches) |-> DD \o matches[i]]]
        ELSE [ok |-> TRUE, arg |-> input]

\* nextArg && !nextArg.startsWith('-'): argv[i+1] exists, is not the empty
\* string and does not start with a dash (i is the 1-based index of arg)
NextIsValue(argv, i) ==
  /\ i + 1 <= Len(argv)
  /\ argv[i + 1] # <<>>
  /\ ~StartsWith(argv[i + 1], <<DASH>>)

\* options?.shortOptions?.[key]?.takesValue ?? false
TakesValue(hints, c) == c \in hints.takesValue

\* the inner loop of the combined short options -abc / -fvalue / -abc=value,
\* from character j (1-based): the options, and whether argv[i+1] was consumed
RECURSIVE ShortScan(_, _, _, _, _, _, _, _)
ShortScan(argv, hints, i, chars, eqValue, hasEq, j, opts) ==
  IF j > Len(chars) THEN [opts |-> opts, consumed |-> FALSE]
  ELSE
    LET char   == <<chars[j]>>
        isLast == j = Len(chars)
        rest   == SliceFrom(chars, j)
    IN  IF TakesValue(hints, char)
        THEN IF Len(rest) > 0
               THEN [opts |-> setOption(opts, char,
                                StrVal(IF hasEq THEN rest \o <<EQ>> \o eqValue ELSE rest)),
                     consumed |-> FALSE]
             ELSE IF hasEq
               THEN [opts |-> setOption(opts, char, StrVal(eqValue)), consumed |-> FALSE]
             ELSE IF NextIsValue(argv, i)
               THEN [opts |-> setOption(opts, char, StrVal(argv[i + 1])), consumed |-> TRUE]
             ELSE [opts |-> setOption(opts, char, TrueVal), consumed |-> FALSE]
        ELSE IF isLast /\ hasEq
          THEN ShortScan(argv, hints, i, chars, eqValue, hasEq, j + 1,
                         setOption(opts, char, StrVal(eqValue)))
        ELSE ShortScan(argv, hints, i, chars, eqValue, hasEq, j + 1,
                       setOption(opts, char, TrueVal))

\* the body of the for loop of parseArgv, from index i (1-based)
RECURSIVE ParseFrom(_, _, _, _, _, _)
ParseFrom(argv, hints, i, stopParsing, positionals, opts) ==
  IF i > Len(argv)
  THEN [ok |-> TRUE, positionals |-> positionals, options |-> opts, error |-> <<>>]
  ELSE
    LET arg == argv[i]
    IN
    IF arg = DD
      THEN ParseFrom(argv, hints, i + 1, TRUE, positionals, opts)
    ELSE IF stopParsing
      THEN ParseFrom(argv, hints, i + 1, stopParsing, Append(positionals, arg), opts)
    ELSE IF arg = <<DASH>>
      THEN ParseFrom(argv, hints, i + 1, stopParsing, Append(positionals, arg), opts)
    ELSE IF StartsWith(arg, DD) /\ Len(arg) > 2
      THEN
        LET ex == expandLongOption(arg, hints.knownOptions)
            expandedArg == ex.arg
            eqIndex == IndexOf(expandedArg, EQ)
        IN  IF ~ex.ok
              THEN [ok |-> FALSE, positionals |-> positionals, options |-> opts,
                    error |-> ex.arg]
            ELSE IF eqIndex > 2
              THEN ParseFrom(argv, hints, i + 1, stopParsing, positionals,
                     setOption(opts, Slice(expandedArg, 2, eqIndex),
                               StrVal(SliceFrom(expandedArg, eqIndex + 1))))
            ELSE
              LET key == SliceFrom(expandedArg, 2)
                  isBoolean == key \in hints.booleanOptions
              IN  IF ~isBoolean /\ NextIsValue(argv, i)
                    THEN ParseFrom(argv, hints, i + 2, stopParsing, positionals,
                           setOption(opts, key, StrVal(argv[i + 1])))
                  ELSE ParseFrom(argv, hints, i + 1, stopParsing, positionals,
                           setOption(opts, key, TrueVal))
    ELSE IF StartsWith(arg, <<DASH>>) /\ Len(arg) > 1
      THEN
        LET eqIndex == IndexOf(arg, EQ)
            keyPart == Slice(arg, 0, eqIndex)
        IN
        IF eqIndex >= 2 /\ ~StartsWith(keyPart, DD) /\ Len(keyPart) = 2
          THEN ParseFrom(argv, hints, i + 1, stopParsing, positionals,
                 setOption(opts, SliceFrom(keyPart, 1), StrVal(SliceFrom(arg, eqIndex + 1))))
        ELSE
          LET eqInChars == IndexOfFrom(arg, EQ, 1)
              hasEq   == eqInChars > 0
              chars   == IF hasEq THEN Slice(arg, 1, eqInChars) ELSE SliceFrom(arg, 1)
              eqValue == IF hasEq THEN SliceFrom(arg, eqInChars + 1) ELSE <<>>
          IN
          IF Len(chars) = 1
            THEN IF hasEq
                   THEN ParseFrom(argv, hints, i + 1, stopParsing, positionals,
                          setOption(opts, chars, StrVal(eqValue)))
                 ELSE IF TakesValue(hints, chars) /\ NextIsValue(argv, i)
                   THEN ParseFrom(argv, hints, i + 2, stopParsing, positionals,
                          setOption(opts, chars, StrVal(argv[i + 1])))
                 ELSE ParseFrom(argv, hints, i + 1, stopParsing, positionals,
                          setOption(opts, chars, TrueVal))
          ELSE
            LET r == ShortScan(argv, hints, i, chars, eqValue, hasEq, 1, opts)
            IN  ParseFrom(argv, hints, IF r.consumed THEN i + 2 ELSE i + 1,
                          stopParsing, positionals, r.opts)
    ELSE ParseFrom(argv, hints, i + 1, stopParsing, Append(positionals, arg), opts)

\* parseArgv(argv, options): hints = [knownOptions: sequence of keys,
\* takesValue: the short options configured with takesValue = true,
\* booleanOptions: set of keys]
parseArgv(argv, hints) == ParseFrom(argv, hints, 1, FALSE, <<>>, <<>>)

(***************************************************************************)
(* match.ts.  The command tree is a table nodes: id -> node; a group names *)
(* its children by id (subCommands, in declaration order) and its default  *)
(* command by id (0: none).  commands is the list of top-level ids.        *)
(***************************************************************************)
NoNode == ""

\* variant of FindChild: a child matches by its path only
FindChildPathOnly(nodes, currentCommands, segment) ==
  LET hits == {k \in 1..Len(currentCommands) : nodes[currentCommands[k]].path = segment}
  IN  IF hits = {} THEN NoNode
      ELSE currentCommands[CHOOSE k \in hits : \A j \in hits : k <= j]

\* currentCommands.find(c => c.path === segment || c.aliases?.includes(segment)):
\* the first child, in declaration order, that matches; NoNode when none does
FindChild(nodes, currentCommands, segment) ==
  LET hits == {k \in 1..Len(currentCommands) :
                 \/ nodes[currentCommands[k]].path = segment
                 \/ Includes(nodes[currentCommands[k]].aliases, segment)}
  IN  IF hits = {} THEN NoNode
      ELSE currentCommands[CHOOSE k \in hits : \A j \in hits : k <= j]

\* the loop of findCommandAtPath from segment i (1-based)
RECURSIVE FindFrom(_, _, _, _, _)
FindFrom(nodes, currentCommands, parentGroup, path, i) ==
  IF i > Len(path) THEN [type |-> "notFound", node |-> NoNode]
  ELSE
    LET segment == path[i]
        isLast  == i = Len(path)
        current == FindChild(nodes, currentCommands, segment)
        dc      == IF parentGroup = NoNode THEN NoNode
                   ELSE nodes[parentGroup].defaultCommand
    IN  IF current = NoNode /\ dc # NoNode
             /\ (nodes[dc].path = segment \/ Includes(nodes[dc].aliases, segment))
          THEN IF isLast THEN [type |-> "command", node |-> dc]
               ELSE [type |-> "notFound", node |-> NoNode]
        ELSE IF current = NoNode
          THEN [type |-> "notFound", node |-> NoNode]
        ELSE IF nodes[current].type = "command"
          THEN IF isLast THEN [type |-> "command", node |-> current]
               ELSE [type |-> "notFound", node |-> NoNode]
        ELSE IF isLast THEN [type |-> "group", node |-> current]
        ELSE FindFrom(nodes, nodes[current].subCommands, current, path, i + 1)

\* variant of findCommandAtPath: no group has a default command
findCommandAtPathNoDefault(nodes, commands, path) ==
  IF Len(path) = 0 THEN [type |-> "notFound", node |-> NoNode]
  ELSE FindFrom([id \in DOMAIN nodes |-> [nodes[id] EXCEPT !.defaultCommand = NoNode]],
                commands, NoNode, path, 1)

findCommandAtPath(nodes, commands, path) ==
  IF Len(path) = 0 THEN [type |-> "notFound", node |-> NoNode]
  ELSE FindFrom(nodes, commands, NoNode, path, 1)

\* the longest path tried by matchCommand
MaxMatchDepth == 10

\* variant of MatchFrom: the shortest candidate length that resolves wins
MatchFromShortest(nodes, commands, args, depth) ==
  LET ok(d) == findCommandAtPath(nodes, commands, Slice(args, 0, d)).type
                 \in {"command", "group"}
      ds    == {d \in 1..depth : ok(d)}
      first == CHOOSE d \in ds : \A e \in ds : d <= e
  IN  IF ds = {}
      THEN [type |-> "notFound", node |-> NoNode, pathArgs |-> args, remainingArgs |-> <<>>]
      ELSE [type |-> findCommandAtPath(nodes, commands, Slice(args, 0, first)).type,
            node |-> findCommandAtPath(nodes, commands, Slice(args, 0, first)).node,
            pathArgs |-> Slice(args, 0, first), remainingArgs |-> SliceFrom(args, first)]

\* the loop of matchCommand, from candidate length depth downwards
RECURSIVE MatchFrom(_, _, _, _)
MatchFrom(nodes, commands, args, depth) ==
  IF depth <= 0
  THEN [type |-> "notFound", node |-> NoNode, pathArgs |-> args, remainingArgs |-> <<>>]
  ELSE
    LET path   == Slice(args, 0, depth)
        result == findCommandAtPath(nodes, commands, path)
    IN  IF result.type \in {"command", "group"}
        THEN [type |-> result.type, node |-> result.node,
              pathArgs |-> path, remainingArgs |-> SliceFrom(args, depth)]
        ELSE MatchFrom(nodes, commands, args, depth - 1)

\* matchCommand: for notFound, pathArgs holds the field path of the result
matchCommand(nodes, commands, args) ==
  IF Len(args) = 0
  THEN [type |-> "notFound", node |-> NoNode, pathArgs |-> <<>>, remainingArgs |-> <<>>]
  ELSE MatchFrom(nodes, commands, args, Min(Len(args), MaxMatchDepth))

\* getCommandGroupsInPath: the groups met walking path from the root, root first
RECURSIVE GroupsFrom(_, _, _, _)
GroupsFrom(nodes, currentCommands, path, i) ==
  IF i > Len(path) THEN <<>>
  ELSE
    LET found == FindChild(nodes, currentCommands, path[i])
    IN  IF found = NoNode THEN <<>>
        ELSE IF nodes[found].type = "group"
          THEN <<found>> \o GroupsFrom(nodes, nodes[found].subCommands, path, i + 1)
        ELSE <<>>

\* variant of getCommandGroupsInPath: the groups above the last segment only
getCommandGroupsAbove(nodes, commands, path) ==
  GroupsFrom(nodes, commands, SubSeq(path, 1, Len(path) - 1), 1)

getCommandGroupsInPath(nodes, commands, path) == GroupsFrom(nodes, commands, path, 1)

(***************************************************************************)
(* Schemas.  A schema is the ordered list of its fields as getSchemaEntries *)
(* returns them; a field carries what schema-utils reports about it:        *)
(* [key, alias (<<>>: none), isBoolean, isList, isOptional].                *)
(***************************************************************************)
Field(key, alias, isBoolean, isList, isOptional) ==
  [key |-> key, alias |-> alias, isBoolean |-> isBoolean, isList |-> isList,
   isOptional |-> isOptional]

getSchemaKeys(schema) == [i \in 1..Len(schema) |-> schema[i].key]

SchemaKeySet(schema) == {schema[i].key : i \in 1..Len(schema)}

\* extractAliasMap: alias -> key; of two fields with one alias the later wins
extractAliasMap(schema) ==
  [a \in {schema[i].alias : i \in {j \in 1..Len(schema) : schema[j].alias # <<>>}} |->
     schema[CHOOSE i \in 1..Len(schema) :
              /\ schema[i].alias = a
              /\ \A j \in 1..Len(schema) : schema[j].alias = a => j <= i].key]

\* parse.ts resolveAliases: rename each key to aliasMap[key] ?? key, merging
\* into an array the values of raw keys that resolve to one key, in the
\* order of the entries of options
RECURSIVE ResolveFrom(_, _, _, _)
ResolveFrom(options, aliasMap, i, resolved) ==
  IF i > Len(options) THEN resolved
  ELSE
    LET key       == options[i].key
        value     == options[i].value
        targetKey == IF key \in DOMAIN aliasMap THEN aliasMap[key] ELSE key
        k         == KeyIndex(resolved, targetKey)
    IN  ResolveFrom(options, aliasMap, i + 1,
          IF k # 0
          THEN [resolved EXCEPT ![k].value =
                  [isArray |-> TRUE, items |-> resolved[k].value.items \o value.items]]
          ELSE Append(resolved, [key |-> targetKey, value |-> value]))

resolveAliases(options, aliasMap) == ResolveFrom(options, aliasMap, 1, <<>>)

(***************************************************************************)
(* validate.ts                                                             *)
(***************************************************************************)
FalseVal == [t |-> "false", s |-> <<>>]

EmptyList == [isArray |-> TRUE, items |-> <<>>]

\* isOptionPresent with userProvidedKeys given (run always passes it)
isOptionPresent(key, userProvidedKeys) == key \in userProvidedKeys

\* constraint.options.filter(opt => isOptionPresent(opt)).length
PresentCount(keys, userProvidedKeys) ==
  Cardinality({i \in 1..Len(keys) : isOptionPresent(keys[i], userProvidedKeys)})

\* constraintValidators: TRUE when the declarative constraint is violated
constraintViolated(c, userProvidedKeys) ==
  CASE c.type = "exclusive" -> PresentCount(c.options, userProvidedKeys) > 1
    [] c.type = "dependsOn" ->
         /\ isOptionPresent(c.option, userProvidedKeys)
         /\ \E i \in 1..Len(c.requires) : ~isOptionPresent(c.requires[i], userProvidedKeys)
    [] c.type = "requiredTogether" ->
         LET n == PresentCount(c.options, userProvidedKeys)
         IN  n > 0 /\ n < Len(c.options)
    [] OTHER -> FALSE

\* an entry of errors: the description (or the default message) of
\* constraint i, followed by the message of what its predicate threw
ConstraintError(i, thrown) == [constraint |-> i, thrown |-> thrown]

\* the loop of checkConstraints from constraint i: the errors pushed;
\* custom[i] is what the user predicate of constraint i does:
\* "true", "false" or "throw"
RECURSIVE ConstraintErrors(_, _, _, _)
ConstraintErrors(constraints, userProvidedKeys, custom, i) ==
  IF i > Len(constraints) THEN <<>>
  ELSE (IF constraints[i].type = "custom"
        THEN IF custom[i] = "throw" THEN <<ConstraintError(i, TRUE)>>
             ELSE IF custom[i] = "false" THEN <<ConstraintError(i, FALSE)>>
             ELSE <<>>
        ELSE IF constraintViolated(constraints[i], userProvidedKeys)
          THEN <<ConstraintError(i, FALSE)>>
        ELSE <<>>)
       \o ConstraintErrors(constraints, userProvidedKeys, custom, i + 1)

\* variant of checkConstraints: the loop stops at the first violation
checkConstraintsFirst(constraints, userProvidedKeys, custom) ==
  LET errors == ConstraintErrors(constraints, userProvidedKeys, custom, 1)
  IN  [valid |-> Len(errors) = 0, errors |-> SubSeq(errors, 1, Min(1, Len(errors)))]

\* checkConstraints: valid, and the errors in the order they were pushed
checkConstraints(constraints, userProvidedKeys, custom) ==
  IF Len(constraints) = 0 THEN [valid |-> TRUE, errors |-> <<>>]
  ELSE LET errors == ConstraintErrors(constraints, userProvidedKeys, custom, 1)
       IN  [valid |-> Len(errors) = 0, errors |-> errors]

\* prepareArgsInput: required fields take positionals before optional ones;
\* rest holds the positionals beyond the declared fields
RequiredFields(schema) ==
  FilterSeq(getSchemaKeys(schema),
            {schema[i].key : i \in {j \in 1..Len(schema) : ~schema[j].isOptional}})

OptionalFields(schema) ==
  FilterSeq(getSchemaKeys(schema),
            {schema[i].key : i \in {j \in 1..Len(schema) : schema[j].isOptional}})

\* variant of prepareArgsInput: the fields take the positionals in the order
\* they are declared
prepareArgsInputDeclared(schema, positionals) ==
  LET allFields == getSchemaKeys(schema)
      n         == Min(Len(allFields), Len(positionals))
  IN  [args |-> [i \in 1..n |-> [key |-> allFields[i], value |-> positionals[i]]],
       rest |-> SliceFrom(positionals, Len(allFields))]

prepareArgsInput(schema, positionals) ==
  LET allFields     == RequiredFields(schema) \o OptionalFields(schema)
      fixedArgCount == Len(allFields)
      n             == Min(Len(allFields), Len(positionals))
  IN  [args |-> [i \in 1..n |-> [key |-> allFields[i], value |-> positionals[i]]],
       rest |-> SliceFrom(positionals, fixedArgCount)]

\* prepareOptionsInput, first loop: a non-optional boolean field that is
\* absent is injected as false, a list of booleans as []
RECURSIVE InjectFrom(_, _, _)
InjectFrom(schema, i, input) ==
  IF i > Len(schema) THEN input
  ELSE InjectFrom(schema, i + 1,
         IF ~HasKey(input, schema[i].key) /\ schema[i].isBoolean /\ ~schema[i].isOptional
         THEN Append(input, [key |-> schema[i].key,
                             value |-> IF schema[i].isList THEN EmptyList
                                       ELSE Scalar(FalseVal)])
         ELSE input)

\* prepareOptionsInput, second loop: a list field keeps or wraps its values,
\* any other field keeps the last element of an array
LastWins(schema, entry) ==
  LET listFields == {schema[i].key : i \in {j \in 1..Len(schema) : schema[j].isList}}
      v == entry.value
  IN  IF v.isArray
      THEN IF entry.key \in listFields THEN entry
           ELSE [entry EXCEPT !.value = Scalar(v.items[Len(v.items)])]
      ELSE IF entry.key \in listFields
        THEN [entry EXCEPT !.value = [isArray |-> TRUE, items |-> v.items]]
      ELSE entry

prepareOptionsInput(schema, options) ==
  LET input == InjectFrom(schema, 1, options)
  IN  [i \in 1..Len(input) |-> LastWins(schema, input[i])]

(***************************************************************************)
(* run.ts: the parse hints collected from every schema of the CLI.         *)
(***************************************************************************)
\* extractParseHints: the hints of one options schema
extractParseHints(schema) ==
  LET aliasMap == extractAliasMap(schema)
      fieldOf(key) == schema[CHOOSE i \in 1..Len(schema) : schema[i].key = key]
  IN  [knownOptions |-> getSchemaKeys(schema),
       shortOptions |-> [a \in DOMAIN aliasMap |-> ~fieldOf(aliasMap[a]).isBoolean],
       longBooleans |-> [k \in SchemaKeySet(schema) |-> fieldOf(k).isBoolean]]

\* knownOptions is a Set: a key is added once, in first-insertion order
AddAll(known, keys) ==
  known \o FilterSeq(keys, {keys[i] : i \in 1..Len(keys)} \ {known[i] : i \in 1..Len(known)})

\* mergeHints: a short option takes a value if it does in any schema, a long
\* option is boolean only if it is in every schema that declares it
mergeHints(acc, hints) ==
  [knownOptions |-> AddAll(acc.knownOptions, hints.knownOptions),
   shortOptions |->
     [a \in DOMAIN acc.shortOptions \cup DOMAIN hints.shortOptions |->
        IF a \in DOMAIN hints.shortOptions
        THEN (a \in DOMAIN acc.shortOptions /\ acc.shortOptions[a]) \/ hints.shortOptions[a]
        ELSE acc.shortOptions[a]],
   longBooleans |->
     [k \in DOMAIN acc.longBooleans \cup DOMAIN hints.longBooleans |->
        IF k \in DOMAIN hints.longBooleans
        THEN IF k \in DOMAIN acc.longBooleans
             THEN acc.longBooleans[k] /\ hints.longBooleans[k]
             ELSE hints.longBooleans[k]
        ELSE acc.longBooleans[k]]]

\* collectHints: the options schemas of the tree in the order they are merged:
\* a command's own, a group's sub-commands and then its default command
RECURSIVE SchemasOf(_, _)
SchemasOf(nodes, commands) ==
  IF commands = <<>> THEN <<>>
  ELSE
    LET cmd == nodes[Head(commands)]
        own == IF cmd.type = "command" THEN <<cmd.options>>
               ELSE SchemasOf(nodes, cmd.subCommands)
                    \o (IF cmd.defaultCommand # NoNode
                        THEN <<nodes[cmd.defaultCommand].options>> ELSE <<>>)
    IN  own \o SchemasOf(nodes, Tail(commands))

RECURSIVE MergeAll(_, _)
MergeAll(acc, schemas) ==
  IF schemas = <<>> THEN acc
  ELSE MergeAll(mergeHints(acc, extractParseHints(Head(schemas))), Tail(schemas))

EmptyHints == [knownOptions |-> <<>>, shortOptions |-> <<>>, longBooleans |-> <<>>]

\* the ParseOptions handed to parseArgv by run
ParseHints(c) ==
  LET schemas == (IF c.hasGlobalOptions THEN <<c.globalOptions>> ELSE <<>>)
                 \o SchemasOf(c.nodes, c.commands)
      merged  == MergeAll(EmptyHints, schemas)
  IN  [knownOptions   |-> merged.knownOptions,
       takesValue     |-> {a \in DOMAIN merged.shortOptions : merged.shortOptions[a]},
       booleanOptions |-> {k \in DOMAIN merged.longBooleans : merged.longBooleans[k]}]

(***************************************************************************)
(* A CLI definition, as defineCli / defineCommandGroup / defineCommand     *)
(* build it.  hooks.preAction and hooks.postAction are given by the length *)
(* of the hook list (0: not declared or empty, 1: a single function).      *)
(***************************************************************************)
Command(path, aliases, args, options, hasRest, constraints, envBindings, pre, post) ==
  [type |-> "command", path |-> path, aliases |-> aliases, subCommands |-> <<>>,
   defaultCommand |-> NoNode, args |-> args, options |-> options, hasRest |-> hasRest,
   constraints |-> constraints, envBindings |-> envBindings,
   preAction |-> pre, postAction |-> post]

Group(path, aliases, subCommands, defaultCommand, pre, post) ==
  [type |-> "group", path |-> path, aliases |-> aliases, subCommands |-> subCommands,
   defaultCommand |-> defaultCommand, args |-> <<>>, options |-> <<>>, hasRest |-> FALSE,
   constraints |-> <<>>, envBindings |-> <<>>, preAction |-> pre, postAction |-> post]

Constraint(type, options, option, requires) ==
  [type |-> type, options |-> options, option |-> option, requires |-> requires]

t_server  == <<"s", "e", "r", "v", "e", "r">>
t_sv      == <<"s", "v">>
t_start   == <<"s", "t", "a", "r", "t">>
t_status  == <<"s", "t", "a", "t", "u", "s">>
t_st      == <<"s", "t">>
t_db      == <<"d", "b">>
t_migrate == <<"m", "i", "g", "r", "a", "t", "e">>
t_build   == <<"b", "u", "i", "l", "d">>
t_b       == <<"b">>
t_ping    == <<"p", "i", "n", "g">>
t_nope    == <<"n", "o", "p", "e">>
t_x       == <<"x">>
t_y       == <<"y">>
t_z       == <<"z">>
k_verbose == <<"v", "e", "r", "b", "o", "s", "e">>
k_port    == <<"p", "o", "r", "t">>
k_force   == <<"f", "o", "r", "c", "e">>
k_format  == <<"f", "o", "r", "m", "a", "t">>
k_out     == <<"o", "u", "t">>
k_watch   == <<"w", "a", "t", "c", "h">>
k_name    == <<"n", "a", "m", "e">>
k_target  == <<"t", "a", "r", "g", "e", "t">>
k_mode    == <<"m", "o", "d", "e">>
k_bogus   == <<"b", "o", "g", "u", "s">>

\* the token --key, -c
Long(key) == DD \o key

Short(c) == <<DASH>> \o c

T_help    == Long(<<"h", "e", "l", "p">>)
T_h       == Short(<<"h">>)
T_version == Long(<<"v", "e", "r", "s", "i", "o", "n">>)

\* the command tree of the sample CLI
SampleNodes ==
  [id \in {"server", "start", "status", "db", "migrate", "build", "ping"} |->
     CASE id = "server"  -> Group(t_server, <<t_sv>>, <<"start", "db">>, "status", 2, 2)
       [] id = "start"   -> Command(t_start, <<>>, <<>>,
                              <<Field(k_port, <<"p">>, FALSE, FALSE, FALSE),
                                Field(k_force, <<"f">>, TRUE, FALSE, FALSE)>>,
                              FALSE,
                              <<Constraint("dependsOn", <<>>, k_force, <<k_port>>)>>,
                              <<>>, 1, 1)
       [] id = "status"  -> Command(t_status, <<t_st>>,
                              <<Field(k_name, <<>>, FALSE, FALSE, TRUE)>>,
                              <<Field(k_format, <<>>, FALSE, FALSE, TRUE)>>,
                              FALSE, <<>>, <<>>, 1, 0)
       [] id = "db"      -> Group(t_db, <<>>, <<"migrate">>, NoNode, 1, 1)
       [] id = "migrate" -> Command(t_migrate, <<>>,
                              <<Field(k_name, <<>>, FALSE, FALSE, FALSE)>>,
                              <<>>, FALSE, <<>>, <<>>, 0, 1)
       [] id = "build"   -> Command(t_build, <<t_b>>,
                              <<Field(k_mode, <<>>, FALSE, FALSE, TRUE),
                                Field(k_target, <<>>, FALSE, FALSE, FALSE)>>,
                              <<Field(k_out, <<"o">>, FALSE, FALSE, TRUE),
                                Field(k_watch, <<"w">>, TRUE, FALSE, FALSE)>>,
                              TRUE,
                              <<Constraint("exclusive", <<k_out, k_watch>>, <<>>, <<>>),
                                Constraint("custom", <<>>, <<>>, <<>>)>>,
                              <<k_out>>, 2, 2)
       [] id = "ping"    -> Command(t_ping, <<>>, <<>>, <<>>, FALSE, <<>>, <<>>, 1, 1)]

\* defineCli: globalOptions { verbose: cfg(Boolean, { alias: 'v' }) }, an env
\* binding for it, and pre/post hook lists of the given lengths
SampleCli(pre, post) ==
  [hasGlobalOptions |-> TRUE,
   globalOptions |-> <<Field(k_verbose, <<"v">>, TRUE, FALSE, FALSE)>>,
   envBindings |-> <<k_verbose>>,
   preAction |-> pre, postAction |-> post,
   nodes |-> SampleNodes, commands |-> <<"server", "build", "ping">>]

\* the command lines the invocations are run with
Argvs ==
  { <<>>,
    <<T_help>>, <<T_h, t_build>>, <<t_server, T_help>>, <<t_nope, Long(<<"f">>), T_h>>,
    <<T_version>>, <<t_build, T_version, T_help>>, <<t_nope, T_version>>,
    <<DD, T_version>>, <<t_build, t_x, DD, T_help>>,
    <<t_nope>>, <<t_server, t_nope, t_x>>,
    <<t_ping, Long(<<"f">>)>>,
    <<t_server>>, <<t_sv, t_st>>, <<t_server, t_status, t_x>>, <<t_server, t_x>>,
    <<t_server, t_db>>, <<t_server, t_db, t_nope>>,
    <<t_server, t_db, t_migrate, t_x>>,
    <<t_server, t_start, Long(k_port), t_x, Short(<<"f">>)>>,
    <<t_sv, t_start, Short(<<"f">>)>>, <<t_server, t_start>>,
    <<t_server, t_start, t_x>>,
    <<t_ping>>, <<t_ping, Short(<<"v">>)>>, <<t_ping, Long(k_bogus)>>,
    <<t_b, t_x>>, <<t_build, t_x, t_y, t_z>>,
    <<t_build, t_x, Short(<<"o">>), t_y, Long(k_watch)>>,
    <<t_build, t_x, Long(k_watch) \o <<EQ>> \o t_z>> }

(***************************************************************************)
(* context.ts.  A store is the Map contexts: token -> <<>> (absent) or     *)
(* <<value>>.  Maps are objects: maps[m] is the content of the Map with    *)
(* identity m.  The AsyncLocalStorage als holds, for each asynchronous     *)
(* execution, the stack of the Maps of the als.run calls it is inside;     *)
(* als.getStore() is the innermost one, undefined when the stack is empty. *)
(***************************************************************************)
\* the invocations of run, all on one CLI definition
Inv == {1, 2}

\* the context tokens: cli.globalOptionsContext, a token a command module
\* defines without a default, and one it defines with the default below
Tokens == {"globalOptions", "user", "fallback"}

\* the identities a Map can have: every invocation holds at most two at a time
MapIds == 1..(2 * Cardinality(Inv))

\* the content of new Map()
EmptyStore == [t \in Tokens |-> <<>>]

\* the Maps some als.run call is holding
MapsInUse(stacks) == UNION {{stacks[p][i] : i \in 1..Len(stacks[p])} : p \in DOMAIN stacks}

\* variant of NewMap: one Map, made once, for every als.run
NewMapShared(used) == 1

\* new Map(): an object that is none of the live ones
NewMap(used) == CHOOSE m \in MapIds \ used : \A k \in MapIds \ used : m <= k

\* NO_DEFAULT, and storedDefault of each token: defineContext(DefaultValue)
\* for fallback, defineContext() for the other two
NO_DEFAULT == [kind |-> "no-default", by |-> 0, v |-> <<>>]

DefaultValue == [kind |-> "default", by |-> 0, v |-> <<>>]

TokenDefault(tok) == IF tok = "fallback" THEN DefaultValue ELSE NO_DEFAULT

\* als.getStore(): the innermost Map of the stack, 0 for undefined
getStore(stack) == IF stack = <<>> THEN 0 ELSE stack[Len(stack)]

\* getContextValue(id, defaultValue), called by an execution whose stack is
\* stack
getContextValue(heap, stack, tok, defaultValue) ==
  IF getStore(stack) = 0
  THEN [ok |-> FALSE, value |-> NO_DEFAULT,
        error |-> "Cannot access context outside of CLI execution"]
  ELSE
    LET store == heap[getStore(stack)]
    IN  IF store[tok] = <<>>
        THEN IF defaultValue # NO_DEFAULT
             THEN [ok |-> TRUE, value |-> defaultValue, error |-> ""]
             ELSE [ok |-> FALSE, value |-> NO_DEFAULT, error |-> "Context not set"]
        ELSE [ok |-> TRUE, value |-> store[tok][1], error |-> ""]

\* variant of setContextValue: the value is stored under every token
setContextValueEveryToken(heap, stack, tok, value) ==
  IF getStore(stack) = 0 THEN heap
  ELSE [heap EXCEPT ![getStore(stack)] = [t \in DOMAIN @ |-> <<value>>]]

\* setContextValue(id, value): what it throws, "" when it returns
setContextError(stack) ==
  IF getStore(stack) = 0 THEN "Cannot access context outside of CLI execution" ELSE ""

\* setContextValue(id, value): the Maps after store.contexts.set(id, value);
\* outside any store it throws and changes nothing
setContextValue(heap, stack, tok, value) ==
  IF getStore(stack) = 0 THEN heap
  ELSE [heap EXCEPT ![getStore(stack)] = [@ EXCEPT ![tok] = <<value>>]]

\* token.get()
Get(heap, stack, tok) == getContextValue(heap, stack, tok, TokenDefault(tok))

\* als.run(store, fn): fn runs with store as the innermost store
alsRun(stack, store) == Append(stack, store)

\* als.run returns: the caller is back in the store it had
alsReturn(stack) == SubSeq(stack, 1, Len(stack) - 1)

(***************************************************************************)
(* run.ts: the hook runners.  A user function is described by what it does *)
(* when called: a preAction hook returns continue or abort (with or        *)
(* without a reason) or throws; a postAction hook and the action return or *)
(* throw.                                                                  *)
(***************************************************************************)
PreOutcomes ==
  { [type |-> "continue", reason |-> ""],
    [type |-> "abort", reason |-> "denied"],
    [type |-> "abort", reason |-> ""],
    [type |-> "throw", reason |-> "boom"] }

BodyOutcomes == { [type |-> "return", reason |-> ""], [type |-> "throw", reason |-> "failed"] }

\* variant of executeGroupHook: the exception of a hook is swallowed and the
\* loop goes on
executeGroupHookSwallowing(outcome) ==
  IF outcome.type = "throw" THEN [type |-> "continue", reason |-> ""]
  ELSE outcome

\* executePreActionHook: the HookResult of one command-level hook; an
\* exception becomes an abort with the exception's message
executePreActionHook(outcome) ==
  IF outcome.type = "throw" THEN [type |-> "abort", reason |-> outcome.reason]
  ELSE outcome

\* the body of the loop of executeGroupHooks: the result of one CLI- or
\* group-level hook; an exception becomes an abort
executeGroupHook(outcome) ==
  IF outcome.type = "throw" THEN [type |-> "abort", reason |-> outcome.reason]
  ELSE outcome

\* the message of an abort: result.reason || <the level's default>
AbortReasonOf(phase, groupPath, result) ==
  IF result.reason # "" THEN [text |-> result.reason, group |-> <<>>]
  ELSE IF phase = "groupPre"
    THEN [text |-> "Aborted by group preAction hook", group |-> groupPath]
  ELSE [text |-> "Aborted by preAction hook", group |-> <<>>]

NoReason == [text |-> "", group |-> <<>>]

\* variant of ActionResultOf: the aborted flag set whenever success is false
ActionResultFlagged(isAborted, reason, success, error) ==
  IF isAborted
  THEN [success |-> FALSE, error |-> reason, aborted |-> TRUE]
  ELSE [success |-> success, error |-> error, aborted |-> ~success]

\* postActionResult (ActionResult): error is the Error's message, "" when
\* undefined; aborted is true or not set (FALSE)
ActionResultOf(isAborted, reason, success, error) ==
  IF isAborted
  THEN [success |-> FALSE, error |-> reason, aborted |-> TRUE]
  ELSE [success |-> success, error |-> error, aborted |-> FALSE]

\* an Error with the given message; NoError stands for undefined
Err(text) == [text |-> text, group |-> <<>>]

NoError == Err("")

\* the result field of a trace entry that is no postAction call
NoResult == [success |-> FALSE, error |-> Err("n/a"), aborted |-> FALSE]

(***************************************************************************)
(* The position of executeWithHooks: the hook it calls next.  phase is     *)
(* cliPre, groupPre, commandPre, action, commandPost, groupPost, cliPost   *)
(* or exit; gi is the index of the group (in groupsInPath for groupPre, in *)
(* its reverse for groupPost), hi the index of the hook in its list.       *)
(***************************************************************************)
Pos(phase, gi, hi) == [phase |-> phase, gi |-> gi, hi |-> hi]

\* if (cli.hooks?.postAction) ...; then the exit handling
FromCliPost(c) ==
  IF c.postAction > 0 THEN Pos("cliPost", 0, 1) ELSE Pos("exit", 0, 0)

\* variant of PostGroups: the groups in the order of the pre phase
PostGroupsRootFirst(groups) == groups

\* [...groupsInPath].reverse(): the groups in the order of the post phase
PostGroups(groups) == Reverse(groups)

\* for (const group of [...groupsInPath].reverse()) if (group.hooks?.postAction)
FromGroupPost(c, groups, g) ==
  LET rev  == PostGroups(groups)
      next == {k \in g..Len(rev) : c.nodes[rev[k]].postAction > 0}
  IN  IF next = {} THEN FromCliPost(c)
      ELSE Pos("groupPost", CHOOSE k \in next : \A j \in next : k <= j, 1)

\* if (command.hooks?.postAction) ...
FromCommandPost(c, groups, cmd) ==
  IF c.nodes[cmd].postAction > 0 THEN Pos("commandPost", 0, 1)
  ELSE FromGroupPost(c, groups, 1)

\* if (!aborted && command.hooks?.preAction) ...; then the action
FromCommandPre(c, cmd) ==
  IF c.nodes[cmd].preAction > 0 THEN Pos("commandPre", 0, 1) ELSE Pos("action", 0, 0)

\* for (const group of groupsInPath) if (group.hooks?.preAction) ...
FromGroupPre(c, groups, cmd, g) ==
  LET next == {k \in g..Len(groups) : c.nodes[groups[k]].preAction > 0}
  IN  IF next = {} THEN FromCommandPre(c, cmd)
      ELSE Pos("groupPre", CHOOSE k \in next : \A j \in next : k <= j, 1)

\* if (cli.hooks?.preAction) ...
FromCliPre(c, groups, cmd) ==
  IF c.preAction > 0 THEN Pos("cliPre", 0, 1) ELSE FromGroupPre(c, groups, cmd, 1)

\* the level whose hook list position pos is in: "cli" or a node id
LevelOf(groups, cmd, pos) ==
  CASE pos.phase \in {"cliPre", "cliPost"} -> "cli"
    [] pos.phase = "groupPre" -> groups[pos.gi]
    [] pos.phase = "groupPost" -> PostGroups(groups)[pos.gi]
    [] OTHER -> cmd

\* the length of the hook list position pos is in
ListLength(c, groups, cmd, pos) ==
  LET level == LevelOf(groups, cmd, pos)
  IN  CASE pos.phase = "cliPre" -> c.preAction
        [] pos.phase = "cliPost" -> c.postAction
        [] pos.phase \in {"groupPre", "commandPre"} -> c.nodes[level].preAction
        [] pos.phase \in {"groupPost", "commandPost"} -> c.nodes[level].postAction
        [] OTHER -> 0

\* where executeWithHooks goes when the hook at pos has run and the pre
\* phases are not aborted: the next hook of the list, else the next phase
AfterHook(c, groups, cmd, pos) ==
  IF pos.hi < ListLength(c, groups, cmd, pos) THEN [pos EXCEPT !.hi = pos.hi + 1]
  ELSE CASE pos.phase = "cliPre" -> FromGroupPre(c, groups, cmd, 1)
         [] pos.phase = "groupPre" -> FromGroupPre(c, groups, cmd, pos.gi + 1)
         [] pos.phase = "commandPre" -> Pos("action", 0, 0)
         [] pos.phase = "action" -> FromCommandPost(c, groups, cmd)
         [] pos.phase = "commandPost" -> FromGroupPost(c, groups, 1)
         [] pos.phase = "groupPost" -> FromGroupPost(c, groups, pos.gi + 1)
         [] OTHER -> Pos("exit", 0, 0)

\* variants of AfterAbort: an abort that ends the invocation at once, and one
\* that only ends the hook list it happened in
AfterAbortExit(c, groups, cmd) == Pos("exit", 0, 0)

AfterAbortAction(c, groups, cmd) == Pos("action", 0, 0)

\* where it goes when a pre hook aborted: every remaining pre phase and the
\* action are skipped
AfterAbort(c, groups, cmd) == FromCommandPost(c, groups, cmd)

(***************************************************************************)
(* run.ts: run, up to the call of executeCommand.                          *)
(***************************************************************************)
\* what was printed: help (for the CLI, a group or a command), the version,
\* an error with its usage hint, or nothing yet
Output(kind, scope) == [kind |-> kind, scope |-> scope, message |-> ""]

NoOutput == Output("none", "")

\* printErrorAndExit(cli, message, command, fullPath): the message and the
\* usage hint for scope on stderr; the callers record the status 1
printErrorAndExit(message, scope) == [kind |-> "error", scope |-> scope, message |-> message]

\* printHelpAndExit: the help of what the tokens that do not start with a
\* dash resolve to
printHelpAndExit(c, av) ==
  LET positionals == FilterSeq(av, {av[i] : i \in {j \in 1..Len(av) :
                                                   ~StartsWith(av[j], <<DASH>>)}})
      match == matchCommand(c.nodes, c.commands, positionals)
  IN  IF match.type \in {"command", "group"} THEN Output("help", match.node)
      ELSE Output("help", "cli")

\* argsBeforeDD
ArgsBeforeDD(av) ==
  LET ddIndex == IndexOf(av, DD)
  IN  IF ddIndex = -1 THEN av ELSE Slice(av, 0, ddIndex)

\* variant of Reserved: --version looked for before the help tokens
ReservedVersionFirst(before) ==
  IF Includes(before, T_version) THEN "version"
  ELSE IF Includes(before, T_help) \/ Includes(before, T_h) THEN "help"
  ELSE "none"

\* lines 84-94: the reserved token run acts on
Reserved(before) ==
  IF Includes(before, T_help) \/ Includes(before, T_h) THEN "help"
  ELSE IF Includes(before, T_version) THEN "version"
  ELSE "none"

NoParsed == [ok |-> FALSE, positionals |-> <<>>, options |-> <<>>, error |-> <<>>]

\* variant of RunResult: positionals left over after the path of a group
\* without a default command are an unknown command
RunResultStrict(c, av) ==
  LET before == ArgsBeforeDD(av)
      parsed == parseArgv(av, ParseHints(c))
      match  == matchCommand(c.nodes, c.commands, parsed.positionals)
      stop(calls, out, status) ==
        [next |-> "done", calls |-> calls, output |-> out, exit |-> <<status>>,
         parsed |-> NoParsed, command |-> NoNode, fullPath |-> <<>>]
  IN  IF Reserved(before) = "help"
        THEN stop(<<"printHelpAndExit">>, printHelpAndExit(c, av), 0)
      ELSE IF Reserved(before) = "version"
        THEN stop(<<"printVersion">>, Output("version", "cli"), 0)
      ELSE IF ~parsed.ok
        THEN stop(<<"parseArgv">>, printErrorAndExit("ambiguous option", "cli"), 1)
      ELSE IF match.type = "notFound"
        THEN stop(<<"parseArgv", "matchCommand">>,
                  printErrorAndExit("Unknown command", "cli"), 1)
      ELSE IF match.type = "group" /\ c.nodes[match.node].defaultCommand = NoNode
        THEN IF match.remainingArgs # <<>>
             THEN stop(<<"parseArgv", "matchCommand">>,
                       printErrorAndExit("Unknown command", "cli"), 1)
             ELSE stop(<<"parseArgv", "matchCommand">>, Output("help", match.node), 0)
      ELSE [next |-> "executeCommand", calls |-> <<"parseArgv", "matchCommand">>,
            output |-> NoOutput, exit |-> <<>>, parsed |-> parsed,
            command |-> IF match.type = "group" THEN c.nodes[match.node].defaultCommand
                        ELSE match.node,
            fullPath |-> match.pathArgs]

\* run(cli, argv): what it prints and the status it exits with, or the
\* command it hands to executeCommand; calls lists the steps it took
RunResult(c, av) ==
  LET before == ArgsBeforeDD(av)
      parsed == parseArgv(av, ParseHints(c))
      match  == matchCommand(c.nodes, c.commands, parsed.positionals)
      stop(calls, out, status) ==
        [next |-> "done", calls |-> calls, output |-> out, exit |-> <<status>>,
         parsed |-> NoParsed, command |-> NoNode, fullPath |-> <<>>]
  IN  IF Reserved(before) = "help"
        THEN stop(<<"printHelpAndExit">>, printHelpAndExit(c, av), 0)
      ELSE IF Reserved(before) = "version"
        THEN stop(<<"printVersion">>, Output("version", "cli"), 0)
      ELSE IF ~parsed.ok
        THEN stop(<<"parseArgv">>, printErrorAndExit("ambiguous option", "cli"), 1)
      ELSE IF match.type = "notFound"
        THEN stop(<<"parseArgv", "matchCommand">>,
                  printErrorAndExit("Unknown command", "cli"), 1)
      ELSE IF match.type = "group" /\ c.nodes[match.node].defaultCommand = NoNode
        THEN stop(<<"parseArgv", "matchCommand">>, Output("help", match.node), 0)
      ELSE [next |-> "executeCommand", calls |-> <<"parseArgv", "matchCommand">>,
            output |-> NoOutput, exit |-> <<>>, parsed |-> parsed,
            command |-> IF match.type = "group" THEN c.nodes[match.node].defaultCommand
                        ELSE match.node,
            fullPath |-> match.pathArgs]

(***************************************************************************)
(* run.ts: executeCommand, up to the call of executeWithHooks.             *)
(***************************************************************************)
\* variant of Bucket: the keys of the schemas are tested before the aliases
BucketKeysFirst(key, commandAliasMap, globalAliasMap, commandOptionKeys, globalOptionKeys) ==
  IF key \in commandOptionKeys THEN "command"
  ELSE IF key \in globalOptionKeys THEN "global"
  ELSE IF key \in DOMAIN commandAliasMap THEN "command"
  ELSE IF key \in DOMAIN globalAliasMap THEN "global"
  ELSE "command"

\* the bucket of a parsed option key: command short alias, then global short
\* alias, then command key, then global key, else the command bucket
Bucket(key, commandAliasMap, globalAliasMap, commandOptionKeys, globalOptionKeys) ==
  IF key \in DOMAIN commandAliasMap THEN "command"
  ELSE IF key \in DOMAIN globalAliasMap THEN "global"
  ELSE IF key \in commandOptionKeys THEN "command"
  ELSE IF key \in globalOptionKeys THEN "global"
  ELSE "command"

\* the entries of options that fall in the given bucket, in their order
RECURSIVE RawOptions(_, _, _, _, _, _)
RawOptions(options, bucket, cam, gam, cok, gok) ==
  IF options = <<>> THEN <<>>
  ELSE (IF Bucket(Head(options).key, cam, gam, cok, gok) = bucket
        THEN <<Head(options)>> ELSE <<>>)
       \o RawOptions(Tail(options), bucket, cam, gam, cok, gok)

\* tryParseJson: a string that starts with { or [ is replaced by the value
\* JSON.parse gives (strings JSON.parse rejects are kept; the values of the
\* model that start with { or [ are well-formed)
tryParseJson(v) ==
  IF v.t = "str" /\ v.s # <<>> /\ v.s[1] \in {"{", "["} THEN [t |-> "json", s |-> v.s]
  ELSE v

autoParseJson(options) ==
  [i \in 1..Len(options) |->
     [options[i] EXCEPT !.value.items =
        [j \in 1..Len(options[i].value.items) |-> tryParseJson(options[i].value.items[j])]]]

\* the value an environment variable puts in an option
EnvVal == [t |-> "env", s |-> <<>>]

\* applyEnvBindings: env[key] tells whether the variable bound to option key
\* is unset, set, or set to a value its transform throws on; a binding only
\* applies when the option is not among the ones given to the call
RECURSIVE ApplyEnvFrom(_, _, _, _, _)
ApplyEnvFrom(bindings, options, env, i, result) ==
  IF i > Len(bindings) THEN [ok |-> TRUE, options |-> result]
  ELSE IF env[bindings[i]] # "unset" /\ ~HasKey(options, bindings[i])
    THEN IF env[bindings[i]] = "throws" THEN [ok |-> FALSE, options |-> result]
         ELSE ApplyEnvFrom(bindings, options, env, i + 1,
                IF HasKey(result, bindings[i])
                THEN [result EXCEPT ![KeyIndex(result, bindings[i])].value = Scalar(EnvVal)]
                ELSE Append(result, [key |-> bindings[i], value |-> Scalar(EnvVal)]))
  ELSE ApplyEnvFrom(bindings, options, env, i + 1, result)

applyEnvBindings(bindings, options, env) == ApplyEnvFrom(bindings, options, env, 1, options)

\* what the collaborators outside the repository answer during one
\* executeCommand: whether the schema validator accepts each section, what
\* a custom constraint's predicate does, and the environment variables
EnvKeys == {k_out, k_verbose}

Oracles ==
  [global : BOOLEAN, rest : BOOLEAN, args : BOOLEAN, options : BOOLEAN,
   custom : {"true", "false", "throw"},
   env : [EnvKeys -> {"unset", "set", "throws"}]]

\* variant of validateInput: a failure of the validator taken for a success
validateInputAccepting(isOk) == [success |-> TRUE]

\* validateInput(schema, input): the ValidationResult for the answer isOk of
\* Validator.validate
validateInput(isOk) == [success |-> isOk]

\* an answer of Validator.validate, as the log of the validator keeps it
Verdict(section, isOk) == [section |-> section, isOk |-> isOk]

NoHookInput == [args |-> <<>>, options |-> <<>>, command |-> NoNode, fullPath |-> <<>>]

\* variant of UserProvidedOptionKeys: the keys are read after the defaults of
\* the boolean options have been injected
KeysAfterInjection(finalCommandOptionsInput, optionsInput) == KeySet(optionsInput)

\* const userProvidedOptionKeys = new Set(Object.keys(finalCommandOptionsInput)),
\* taken before prepareOptionsInput has made optionsInput
UserProvidedOptionKeys(finalCommandOptionsInput, optionsInput) ==
  KeySet(finalCommandOptionsInput)

\* executeCommand(cli, command, parsed, fullPath) with the collaborators
\* answering as o: the error it prints and exits with, or what it hands to
\* executeWithHooks; calls lists the steps it took
ExecResult(c, parsed, cmd, fullPath, o) ==
  LET command == c.nodes[cmd]
      globalSchema == IF c.hasGlobalOptions THEN c.globalOptions ELSE <<>>
      gam == extractAliasMap(globalSchema)
      cam == extractAliasMap(command.options)
      cok == SchemaKeySet(command.options)
      gok == SchemaKeySet(globalSchema)
      rawCommandOptions == RawOptions(parsed.options, "command", cam, gam, cok, gok)
      rawGlobalOptions  == RawOptions(parsed.options, "global", cam, gam, cok, gok)
      commandOptionsInput == autoParseJson(resolveAliases(rawCommandOptions, cam))
      globalOptionsInput  == autoParseJson(resolveAliases(rawGlobalOptions, gam))
      cmdEnv == applyEnvBindings(command.envBindings, commandOptionsInput, o.env)
      finalCommandOptionsInput == cmdEnv.options
      unknownKeys == KeySet(finalCommandOptionsInput) \ cok
      cliEnv == applyEnvBindings(c.envBindings, globalOptionsInput, o.env)
      finalGlobalOptionsInput == cliEnv.options
      globalOptionsValue ==
        IF c.hasGlobalOptions THEN prepareOptionsInput(globalSchema, finalGlobalOptionsInput)
        ELSE <<>>
      positionalArgs == SliceFrom(parsed.positionals, Len(fullPath))
      prepared == prepareArgsInput(command.args, positionalArgs)
      restChecked == command.hasRest /\ prepared.rest # <<>>
      restErrors == restChecked /\ ~validateInput(o.rest).success
      optionsInput == prepareOptionsInput(command.options, finalCommandOptionsInput)
      userProvidedOptionKeys ==
        UserProvidedOptionKeys(finalCommandOptionsInput, optionsInput)
      constraintCheck == checkConstraints(command.constraints, userProvidedOptionKeys,
                           [i \in 1..Len(command.constraints) |-> o.custom])
      fail(calls, verdicts, message, scope) ==
        [next |-> "done", calls |-> calls, validations |-> verdicts,
         output |-> printErrorAndExit(message, scope),
         exit |-> <<1>>, hookInput |-> NoHookInput, restValues |-> <<>>,
         groupsInPath |-> <<>>, globalOptionsValue |-> <<>>,
         userProvidedOptionKeys |-> {}]
      s1 == <<"separateOptions">>
            \o (IF command.envBindings # <<>> THEN <<"applyEnvBindings(command)">> ELSE <<>>)
      s2 == s1 \o <<"checkUnknownOptions">>
      s3 == s2 \o (IF c.envBindings # <<>> THEN <<"applyEnvBindings(cli)">> ELSE <<>>)
      s4 == s3 \o (IF c.hasGlobalOptions THEN <<"validateInput(globalOptions)">> ELSE <<>>)
      s5 == s4 \o <<"prepareArgsInput">>
      s6 == s5 \o <<"validateInput(args)">>
      s7 == s6 \o <<"validateInput(options)">>
      s8 == s7 \o <<"checkConstraints">>
      v4 == IF c.hasGlobalOptions THEN <<Verdict("globalOptions", o.global)>> ELSE <<>>
      v5 == v4 \o (IF restChecked THEN <<Verdict("rest", o.rest)>> ELSE <<>>)
      v6 == v5 \o <<Verdict("args", o.args)>>
      v7 == v6 \o <<Verdict("options", o.options)>>
  IN  IF ~cmdEnv.ok THEN fail(s1, <<>>, "env transform", cmd)
      ELSE IF unknownKeys # {} THEN fail(s2, <<>>, "Unknown option", cmd)
      ELSE IF ~cliEnv.ok THEN fail(s3, <<>>, "env transform", "cli")
      ELSE IF c.hasGlobalOptions /\ ~validateInput(o.global).success
        THEN fail(s4, v4, "Invalid global options", "cli")
      ELSE IF restErrors THEN fail(s5, v5, "Invalid rest arguments", cmd)
      ELSE IF ~command.hasRest /\ prepared.rest # <<>>
        THEN fail(s5, v5, "Too many arguments", cmd)
      ELSE IF ~validateInput(o.args).success THEN fail(s6, v6, "Invalid arguments", cmd)
      ELSE IF ~validateInput(o.options).success
        THEN [fail(s7, v7, "Invalid options", cmd)
                EXCEPT !.userProvidedOptionKeys = userProvidedOptionKeys]
      ELSE IF ~constraintCheck.valid
        THEN [fail(s8, v7, "Constraint violations", cmd)
                EXCEPT !.userProvidedOptionKeys = userProvidedOptionKeys]
      ELSE [next |-> "hooks",
            calls |-> s8 \o <<"getCommandGroupsInPath", "als.run",
                              "globalOptionsContext.set", "executeWithHooks">>,
            validations |-> v7,
            output |-> NoOutput, exit |-> <<>>,
            hookInput |-> [args |-> prepared.args, options |-> optionsInput,
                           command |-> cmd, fullPath |-> fullPath],
            restValues |-> prepared.rest,
            groupsInPath |-> getCommandGroupsInPath(c.nodes, c.commands, fullPath),
            globalOptionsValue |-> globalOptionsValue,
            userProvidedOptionKeys |-> userProvidedOptionKeys]

(***************************************************************************)
(* The state.                                                              *)
(***************************************************************************)
VARIABLES
  cli,                    \* the CLI definition, built once and read-only
  argv,                   \* argv[p]: the command line of invocation p
  pc,                     \* off, idle, executeCommand, hooks or done
  calls,                  \* the steps run and executeCommand have taken
  validations,            \* the answers Validator.validate has given
  output,                 \* what was printed on exit
  exit,                   \* the statuses passed to process.exit
  parsed,                 \* run: parsed
  command,                \* executeCommand: command (a node id)
  fullPath,               \* executeCommand: fullPath
  hookInput,              \* executeCommand: hookInput
  restValues,             \* executeCommand: restValues
  groupsInPath,           \* executeCommand: groupsInPath
  globalOptionsValue,     \* executeCommand: globalOptionsValue
  userProvidedOptionKeys, \* executeCommand: userProvidedOptionKeys
  pos,                    \* executeWithHooks: the hook to call next
  running,                \* a hook or the action has been called and not returned
  aborted,                \* executeWithHooks: aborted
  abortReason,            \* executeWithHooks: abortReason
  actionSuccess,          \* executeWithHooks: actionSuccess
  actionError,            \* executeWithHooks: actionError
  postActionResult,       \* executeWithHooks: postActionResult
  trace,                  \* the user functions called, with the result passed
  stderr,                 \* the lines console.error has written
  als,                    \* als[p]: the Maps of the als.run calls p is inside
  maps,                   \* maps[m]: the content of the Map m
  ret                     \* ret[p]: what a function called on its own returned

vars ==
  <<cli, argv, pc, calls, validations, output, exit, parsed, command, fullPath, hookInput,
    restValues, groupsInPath, globalOptionsValue, userProvidedOptionKeys, pos,
    running, aborted, abortReason, actionSuccess, actionError, postActionResult,
    trace, stderr, als, maps, ret>>

pipeVars ==
  <<parsed, command, fullPath, hookInput, restValues, groupsInPath,
    globalOptionsValue, userProvidedOptionKeys>>

hookVars == <<aborted, abortReason, actionSuccess, actionError, postActionResult>>

\* the value stored under the globalOptionsContext token by invocation p, and
\* a value a hook of p stores
GlobalCtxValue(p, value) == [kind |-> "globalOptions", by |-> p, v |-> value]

UserCtxValue(p, value) == [kind |-> "user", by |-> p, v |-> value]

\* the tokens the hooks and actions of the sample set
HookTokens == {"globalOptions", "user"}

\* the values the hooks and actions of the sample store: one object
UserValues == {<<[key |-> <<"u">>, value |-> Scalar(StrVal(<<"a">>))]>>}

\* the state when run is entered, or, for a function called on its own,
\* when it is: userProvidedOptionKeys is empty unless it is an argument
InitFrom(clis, argvs, started, keySets) ==
  /\ cli \in clis
  /\ \E a \in [started -> argvs] :
       argv = [p \in Inv |-> IF p \in started THEN a[p] ELSE <<>>]
  /\ pc = [p \in Inv |-> IF p \in started THEN "idle" ELSE "off"]
  /\ calls = [p \in Inv |-> <<>>]
  /\ validations = [p \in Inv |-> <<>>]
  /\ output = [p \in Inv |-> NoOutput]
  /\ exit = [p \in Inv |-> <<>>]
  /\ parsed = [p \in Inv |-> NoParsed]
  /\ command = [p \in Inv |-> NoNode]
  /\ fullPath = [p \in Inv |-> <<>>]
  /\ hookInput = [p \in Inv |-> NoHookInput]
  /\ restValues = [p \in Inv |-> <<>>]
  /\ groupsInPath = [p \in Inv |-> <<>>]
  /\ globalOptionsValue = [p \in Inv |-> <<>>]
  /\ \E k \in [started -> keySets] :
       userProvidedOptionKeys =
         [p \in Inv |-> IF p \in started THEN k[p] ELSE {}]
  /\ pos = [p \in Inv |-> Pos("none", 0, 0)]
  /\ running = [p \in Inv |-> FALSE]
  /\ aborted = [p \in Inv |-> FALSE]
  /\ abortReason = [p \in Inv |-> NoReason]
  /\ actionSuccess = [p \in Inv |-> FALSE]
  /\ actionError = [p \in Inv |-> NoError]
  /\ postActionResult = [p \in Inv |-> NoResult]
  /\ trace = [p \in Inv |-> <<>>]
  /\ stderr = [p \in Inv |-> <<>>]
  /\ als = [p \in Inv |-> <<>>]
  /\ maps = [m \in MapIds |-> EmptyStore]
  /\ ret = [p \in Inv |-> <<>>]

InitWith(clis, argvs, started) == InitFrom(clis, argvs, started, {{}})

\* the numbers of CLI-level preAction and postAction hooks of the CLIs run
HookCounts ==
  {<<pre, post>> \in (0..MaxHooks) \X (0..MaxHooks) : pre = post \/ pre + post = MaxHooks}

\* one invocation, of any of the command lines, on a CLI with up to MaxHooks
\* CLI-level hooks of each kind
Init == InitWith({SampleCli(n[1], n[2]) : n \in HookCounts}, Argvs, {1})

(***************************************************************************)
(* run and executeCommand                                                  *)
(***************************************************************************)
\* run(cli, argv), lines 79-182: the reserved tokens, parseArgv, matchCommand
Run(p) ==
  /\ pc[p] = "idle"
  /\ \E r \in {RunResult(cli, argv[p])} :
       /\ pc' = [pc EXCEPT ![p] = r.next]
       /\ calls' = [calls EXCEPT ![p] = r.calls]
       /\ output' = [output EXCEPT ![p] = r.output]
       /\ exit' = [exit EXCEPT ![p] = r.exit]
       /\ parsed' = [parsed EXCEPT ![p] = r.parsed]
       /\ command' = [command EXCEPT ![p] = r.command]
       /\ fullPath' = [fullPath EXCEPT ![p] = r.fullPath]
  /\ UNCHANGED <<cli, ret, argv, validations, hookInput, restValues, groupsInPath, globalOptionsValue,
                 userProvidedOptionKeys, pos, running, hookVars, trace, stderr, als, maps>>

\* variant of EnterStore: the store is created, the global options are not
\* written into it
EnterStoreEmpty(heap, stacks, p, value) ==
  LET contexts == NewMap(MapsInUse(stacks))
  IN  [stack |-> alsRun(stacks[p], contexts),
       maps  |-> [heap EXCEPT ![contexts] = EmptyStore]]

\* const contexts = new Map(); als.run({ contexts }, ...) and, inside it,
\* cli.globalOptionsContext.set(globalOptionsValue): the stack of the
\* invocation and the Maps when executeWithHooks is called
EnterStore(heap, stacks, p, value) ==
  LET contexts == NewMap(MapsInUse(stacks))
      stack    == alsRun(stacks[p], contexts)
  IN  [stack |-> stack,
       maps  |-> setContextValue([heap EXCEPT ![contexts] = EmptyStore], stack,
                                 "globalOptions", value)]

\* executeCommand, lines 187-438: option separation, validation, constraints,
\* then the context store and the first step of executeWithHooks
ExecuteCommand(p) ==
  /\ pc[p] = "executeCommand"
  /\ \E o \in Oracles :
       \E r \in {ExecResult(cli, parsed[p], command[p], fullPath[p], o)} :
         /\ pc' = [pc EXCEPT ![p] = r.next]
         /\ calls' = [calls EXCEPT ![p] = calls[p] \o r.calls]
         /\ validations' = [validations EXCEPT ![p] = r.validations]
         /\ output' = [output EXCEPT ![p] = r.output]
         /\ exit' = [exit EXCEPT ![p] = r.exit]
         /\ hookInput' = [hookInput EXCEPT ![p] = r.hookInput]
         /\ restValues' = [restValues EXCEPT ![p] = r.restValues]
         /\ groupsInPath' = [groupsInPath EXCEPT ![p] = r.groupsInPath]
         /\ globalOptionsValue' = [globalOptionsValue EXCEPT ![p] = r.globalOptionsValue]
         /\ userProvidedOptionKeys' =
              [userProvidedOptionKeys EXCEPT ![p] = r.userProvidedOptionKeys]
         /\ IF r.next = "hooks"
            THEN \E s \in {EnterStore(maps, als, p, GlobalCtxValue(p, r.globalOptionsValue))} :
                   /\ als' = [als EXCEPT ![p] = s.stack]
                   /\ maps' = s.maps
                   /\ pos' = [pos EXCEPT ![p] = FromCliPre(cli, r.groupsInPath, command[p])]
            ELSE UNCHANGED <<als, maps, pos>>
  /\ UNCHANGED <<cli, ret, argv, parsed, command, fullPath, running, hookVars, trace, stderr>>

(***************************************************************************)
(* executeWithHooks                                                        *)
(***************************************************************************)
PrePhases == {"cliPre", "groupPre", "commandPre"}

PostPhases == {"commandPost", "groupPost", "cliPost"}

\* the entry the call of the user function at pos[p] adds to the trace
Called(p, fn, result) ==
  [fn |-> fn, level |-> LevelOf(groupsInPath[p], command[p], pos[p]),
   index |-> pos[p].hi, result |-> result]

\* variant of MayCall: the call is made without awaiting the previous one
MayCallUnawaited(p) == pc[p] = "hooks"

\* a user function may be called: the previous one has returned
MayCall(p) == pc[p] = "hooks" /\ ~running[p]

\* a user function returns: every als.run it made has returned
MayReturn(p) == pc[p] = "hooks" /\ running[p] /\ Len(als[p]) = 1

\* executeGroupHooks / executeHooks: hook(input) is called
PreHookCall(p) ==
  /\ MayCall(p)
  /\ pos[p].phase \in PrePhases
  /\ running' = [running EXCEPT ![p] = TRUE]
  /\ trace' = [trace EXCEPT ![p] = Append(@, Called(p, "preAction", NoResult))]
  /\ UNCHANGED <<cli, ret, argv, pc, calls, validations, output, exit, pipeVars, pos, hookVars, stderr,
                 als, maps>>

\* the HookResult of the hook at pos[p] for what the hook did
PreHookResult(p, outcome) ==
  IF pos[p].phase = "commandPre" THEN executePreActionHook(outcome)
  ELSE executeGroupHook(outcome)

\* the hook returns: on continue the loop goes on; on abort (or an exception)
\* aborted and abortReason are set and lines 488-514 give postActionResult
PreHookEnd(p) ==
  /\ MayReturn(p)
  /\ pos[p].phase \in PrePhases
  /\ \E outcome \in PreOutcomes :
       LET result == PreHookResult(p, outcome)
           reason == AbortReasonOf(pos[p].phase,
                       cli.nodes[LevelOf(groupsInPath[p], command[p], pos[p])].path, result)
       IN  IF result.type = "abort"
           THEN /\ aborted' = [aborted EXCEPT ![p] = TRUE]
                /\ abortReason' = [abortReason EXCEPT ![p] = reason]
                /\ postActionResult' = [postActionResult EXCEPT ![p] =
                     ActionResultOf(TRUE, reason, actionSuccess[p], actionError[p])]
                /\ pos' = [pos EXCEPT ![p] = AfterAbort(cli, groupsInPath[p], command[p])]
           ELSE /\ UNCHANGED <<aborted, abortReason, postActionResult>>
                /\ pos' = [pos EXCEPT ![p] =
                     AfterHook(cli, groupsInPath[p], command[p], pos[p])]
  /\ running' = [running EXCEPT ![p] = FALSE]
  /\ UNCHANGED <<cli, ret, argv, pc, calls, validations, output, exit, pipeVars, actionSuccess,
                 actionError, trace, stderr, als, maps>>

\* actionFn(args, options[, rest]) is called
ActionCall(p) ==
  /\ MayCall(p)
  /\ pos[p].phase = "action"
  /\ running' = [running EXCEPT ![p] = TRUE]
  /\ trace' = [trace EXCEPT ![p] = Append(@, Called(p, "action", NoResult))]
  /\ UNCHANGED <<cli, ret, argv, pc, calls, validations, output, exit, pipeVars, pos, hookVars, stderr,
                 als, maps>>

\* the action returns or throws; lines 504-514
ActionEnd(p) ==
  /\ MayReturn(p)
  /\ pos[p].phase = "action"
  /\ \E outcome \in BodyOutcomes :
       LET success == outcome.type = "return"
           error   == IF success THEN NoError ELSE Err(outcome.reason)
       IN  /\ actionSuccess' = [actionSuccess EXCEPT ![p] = success]
           /\ actionError' = [actionError EXCEPT ![p] = error]
           /\ postActionResult' = [postActionResult EXCEPT ![p] =
                ActionResultOf(aborted[p], abortReason[p], success, error)]
  /\ pos' = [pos EXCEPT ![p] = AfterHook(cli, groupsInPath[p], command[p], pos[p])]
  /\ running' = [running EXCEPT ![p] = FALSE]
  /\ UNCHANGED <<cli, ret, argv, pc, calls, validations, output, exit, pipeVars, aborted, abortReason,
                 trace, stderr, als, maps>>

\* executePostActionHook / executeGroupPostActionHook: hook(input, result)
PostHookCall(p) ==
  /\ MayCall(p)
  /\ pos[p].phase \in PostPhases
  /\ running' = [running EXCEPT ![p] = TRUE]
  /\ trace' = [trace EXCEPT ![p] = Append(@, Called(p, "postAction", postActionResult[p]))]
  /\ UNCHANGED <<cli, ret, argv, pc, calls, validations, output, exit, pipeVars, pos, hookVars, stderr,
                 als, maps>>

\* variant of AfterPostHook: an exception of a post hook ends the post phases
AfterPostHookRethrow(c, groups, cmd, position, outcome) ==
  IF outcome.type = "throw" THEN Pos("exit", 0, 0)
  ELSE AfterHook(c, groups, cmd, position)

\* where the post phases go when a hook has returned or thrown: the catch
\* of executePostActionHook swallows the exception and the loop goes on
AfterPostHook(c, groups, cmd, position, outcome) == AfterHook(c, groups, cmd, position)

\* the hook returns, or throws and console.error reports it
PostHookEnd(p) ==
  /\ MayReturn(p)
  /\ pos[p].phase \in PostPhases
  /\ \E outcome \in BodyOutcomes :
       /\ pos' = [pos EXCEPT ![p] =
                    AfterPostHook(cli, groupsInPath[p], command[p], pos[p], outcome)]
       /\ stderr' = [stderr EXCEPT ![p] =
                    IF outcome.type = "throw"
                    THEN Append(@, <<"[postAction hook error]", outcome.reason>>)
                    ELSE @]
  /\ running' = [running EXCEPT ![p] = FALSE]
  /\ UNCHANGED <<cli, ret, argv, pc, calls, validations, output, exit, pipeVars, hookVars, trace, als, maps>>

\* variant of ExitStatus: only an abort counts as a failure
ExitStatusOfAbort(isAborted, success) == IF isAborted THEN 1 ELSE 0

\* lines 533-545: the status handed to process.exit
ExitStatus(isAborted, success) == IF isAborted THEN 1 ELSE IF ~success THEN 1 ELSE 0

\* the exit handling of executeWithHooks; the als.run of the invocation ends
Exit(p) ==
  /\ MayCall(p)
  /\ pos[p].phase = "exit"
  /\ pc' = [pc EXCEPT ![p] = "done"]
  /\ exit' = [exit EXCEPT ![p] = <<ExitStatus(aborted[p], actionSuccess[p])>>]
  /\ output' = [output EXCEPT ![p] =
       IF aborted[p] THEN printErrorAndExit(abortReason[p].text, command[p])
       ELSE IF ~actionSuccess[p] THEN printErrorAndExit("Error", command[p])
       ELSE NoOutput]
  /\ maps' = [maps EXCEPT ![getStore(als[p])] = EmptyStore]
  /\ als' = [als EXCEPT ![p] = alsReturn(@)]
  /\ UNCHANGED <<cli, ret, argv, calls, validations, pipeVars, pos, running, hookVars, trace,
                 stderr>>

(***************************************************************************)
(* What a hook or an action does with the context while it runs.           *)
(***************************************************************************)
\* token.set(value)
CtxSet(p) ==
  /\ pc[p] = "hooks" /\ running[p]
  /\ \E tok \in HookTokens, value \in UserValues :
       maps' = setContextValue(maps, als[p], tok, UserCtxValue(p, value))
  /\ UNCHANGED <<cli, ret, argv, pc, calls, validations, output, exit, pipeVars, pos, running, hookVars,
                 trace, stderr, als>>

\* als.run({ contexts: new Map() }, fn) inside the action (the hooks of the
\* sample call none)
NestedRun(p) ==
  /\ pc[p] = "hooks" /\ running[p]
  /\ pos[p].phase = "action"
  /\ Len(als[p]) = 1
  /\ \E contexts \in {NewMap(MapsInUse(als))} :
       /\ als' = [als EXCEPT ![p] = alsRun(@, contexts)]
       /\ maps' = [maps EXCEPT ![contexts] = EmptyStore]
  /\ UNCHANGED <<cli, ret, argv, pc, calls, validations, output, exit, pipeVars, pos, running, hookVars,
                 trace, stderr>>

\* the nested als.run returns; nothing holds its Map any more
NestedEnd(p) ==
  /\ pc[p] = "hooks" /\ running[p]
  /\ Len(als[p]) > 1
  /\ maps' = [maps EXCEPT ![getStore(als[p])] = EmptyStore]
  /\ als' = [als EXCEPT ![p] = alsReturn(@)]
  /\ UNCHANGED <<cli, ret, argv, pc, calls, validations, output, exit, pipeVars, pos, running, hookVars,
                 trace, stderr>>

Next ==
  \E p \in Inv :
    \/ Run(p)
    \/ ExecuteCommand(p)
    \/ PreHookCall(p)
    \/ PreHookEnd(p)
    \/ ActionCall(p)
    \/ ActionEnd(p)
    \/ PostHookCall(p)
    \/ PostHookEnd(p)
    \/ Exit(p)
    \/ CtxSet(p)
    \/ NestedRun(p)
    \/ NestedEnd(p)

Spec == Init /\ [][Next]_vars

\* two invocations of the same CLI at once, on a command with hooks
ConcArgvs == {<<t_ping>>}

InitConc == InitWith({SampleCli(0, 0)}, ConcArgvs, Inv)

SpecConc == InitConc /\ [][Next]_vars

(***************************************************************************)
(* parseArgv on its own: one call on each command line of up to MaxArgvLen *)
(* of the tokens below, with the parse hints of the sample CLI.            *)
(***************************************************************************)
MaxArgvLen == 3

\* --po (an abbreviation of --port), --port=y, -fp, -p=y
T_po      == Long(<<"p", "o">>)

T_port_y  == Long(k_port) \o <<EQ>> \o t_y

T_fp      == Short(<<"f", "p">>)

T_p_y     == Short(<<"p">>) \o <<EQ>> \o t_y

\* --toString: an option no schema declares
T_toString == Long(<<"t", "o", "S", "t", "r", "i", "n", "g">>)

ParseTokens ==
  {DD, <<DASH>>, t_x, Long(k_port), T_port_y, T_po, Short(<<"p">>), T_p_y,
   Short(<<"f">>), T_fp, T_toString}

ParseArgvs == UNION {[1..n -> ParseTokens] : n \in 0..MaxArgvLen}

InitParse == InitWith({SampleCli(0, 0)}, ParseArgvs, {1})

\* const parsed = parseArgv(argv, parseOptions)
ParseStep(p) ==
  /\ pc[p] = "idle"
  /\ parsed' = [parsed EXCEPT ![p] = parseArgv(argv[p], ParseHints(cli))]
  /\ pc' = [pc EXCEPT ![p] = "done"]
  /\ UNCHANGED <<cli, ret, argv, calls, validations, output, exit, command, fullPath, hookInput,
                 restValues, groupsInPath, globalOptionsValue, userProvidedOptionKeys, pos,
                 running, hookVars, trace, stderr, als, maps>>

NextParse == \E p \in Inv : ParseStep(p)

SpecParse == InitParse /\ [][NextParse]_vars

(***************************************************************************)
(* matchCommand on its own: one call on each list of up to MaxPathLen of   *)
(* the tokens below, and on lists longer than the deepest path it tries,   *)
(* over trees whose siblings and default command share names, in each      *)
(* declaration order.                                                      *)
(***************************************************************************)
MaxPathLen == 3

\* a command with no arguments, options or hooks
Leaf(path, aliases) == Command(path, aliases, <<>>, <<>>, FALSE, <<>>, <<>>, 0, 0)

\* server (alias sv) holds subs and the default command status (alias st);
\* start has the alias st, st is a command of that path, the group db has
\* the alias status; at the top, b is a command and an alias of build
MatchNodes(subs) ==
  [id \in {"server", "start", "st", "status", "db", "migrate", "build", "b"} |->
     CASE id = "server"  -> Group(t_server, <<t_sv>>, subs, "status", 0, 0)
       [] id = "start"   -> Leaf(t_start, <<t_st>>)
       [] id = "st"      -> Leaf(t_st, <<>>)
       [] id = "status"  -> Leaf(t_status, <<t_st>>)
       [] id = "db"      -> Group(t_db, <<t_status>>, <<"migrate">>, NoNode, 0, 0)
       [] id = "migrate" -> Leaf(t_migrate, <<>>)
       [] id = "build"   -> Leaf(t_build, <<t_b>>)
       [] id = "b"       -> Leaf(t_b, <<>>)]

MatchCli(tops, subs) ==
  [SampleCli(0, 0) EXCEPT !.nodes = MatchNodes(subs), !.commands = tops]

\* groups of path x nested deeper than matchCommand looks, a command innermost
ChainIds == <<"g01", "g02", "g03", "g04", "g05", "g06", "g07", "g08", "g09", "g10", "g11", "g12">>

ChainCli ==
  [SampleCli(0, 0) EXCEPT
     !.nodes = [id \in {ChainIds[i] : i \in 1..Len(ChainIds)} |->
                  LET i == CHOOSE j \in 1..Len(ChainIds) : ChainIds[j] = id
                  IN  IF i = Len(ChainIds) THEN Leaf(t_x, <<>>)
                      ELSE Group(t_x, <<>>, <<ChainIds[i + 1]>>, NoNode, 0, 0)],
     !.commands = <<ChainIds[1]>>]

MatchClis ==
  {MatchCli(tops, subs) :
     tops \in {<<"server", "build", "b">>, <<"server", "b", "build">>},
     subs \in {<<"start", "st", "db">>, <<"st", "start", "db">>, <<"start", "db">>,
               <<"db">>, <<>>}}
  \cup {ChainCli}

MatchTokens == {t_server, t_sv, t_st, t_status, t_db, t_b, t_x}

MatchArgs ==
  UNION {[1..n -> MatchTokens] : n \in 0..MaxPathLen}
  \cup {[i \in 1..n |-> t_x] : n \in (MaxMatchDepth - 1)..Len(ChainIds)}

InitMatch == InitWith(MatchClis, MatchArgs, {1})

\* const match = matchCommand(cli.commands, positionals)
MatchStep(p) ==
  /\ pc[p] = "idle"
  /\ ret' = [ret EXCEPT ![p] = matchCommand(cli.nodes, cli.commands, argv[p])]
  /\ pc' = [pc EXCEPT ![p] = "done"]
  /\ UNCHANGED <<cli, argv, calls, validations, output, exit, pipeVars, pos, running,
                 hookVars, trace, stderr, als, maps>>

NextMatch == \E p \in Inv : MatchStep(p)

SpecMatch == InitMatch /\ [][NextMatch]_vars

(***************************************************************************)
(* checkConstraints on its own: one call on each list of up to             *)
(* MaxConstraints of the constraints below and each set of user-provided   *)
(* keys, the predicate of a custom constraint doing any of what it can.    *)
(***************************************************************************)
MaxConstraints == 2

ConstraintKeys == {k_out, k_watch, k_port}

ConstraintDefs ==
  {Constraint("exclusive", <<k_out, k_watch>>, <<>>, <<>>),
   Constraint("exclusive", <<k_out, k_watch, k_port>>, <<>>, <<>>),
   Constraint("dependsOn", <<>>, k_out, <<k_watch>>),
   Constraint("dependsOn", <<>>, k_port, <<k_out, k_watch>>),
   Constraint("requiredTogether", <<k_out, k_watch>>, <<>>, <<>>),
   Constraint("requiredTogether", <<k_watch, k_port, k_out>>, <<>>, <<>>),
   Constraint("custom", <<>>, <<>>, <<>>)}

\* the sample CLI with a command ping that declares the constraints
ConstraintCli(constraints) ==
  [SampleCli(0, 0) EXCEPT !.nodes["ping"].constraints = constraints]

ConstraintClis ==
  {ConstraintCli(cs) : cs \in UNION {[1..n -> ConstraintDefs] : n \in 0..MaxConstraints}}

InitConstraints == InitFrom(ConstraintClis, {<<>>}, {1}, SUBSET ConstraintKeys)

\* const constraintCheck = checkConstraints(finalOptions, command.constraints,
\* userProvidedOptionKeys)
ConstraintsStep(p) ==
  /\ pc[p] = "idle"
  /\ \E custom \in [1..Len(cli.nodes["ping"].constraints) -> {"true", "false", "throw"}] :
       ret' = [ret EXCEPT ![p] =
                 [custom |-> custom,
                  check  |-> checkConstraints(cli.nodes["ping"].constraints,
                                              userProvidedOptionKeys[p], custom)]]
  /\ pc' = [pc EXCEPT ![p] = "done"]
  /\ UNCHANGED <<cli, argv, calls, validations, output, exit, pipeVars, pos, running,
                 hookVars, trace, stderr, als, maps>>

NextConstraints == \E p \in Inv : ConstraintsStep(p)

SpecConstraints == InitConstraints /\ [][NextConstraints]_vars

(***************************************************************************)
(* prepareArgsInput on its own: one call on each args schema of up to      *)
(* MaxFields fields, each required or optional, and each list of up to     *)
(* MaxPositionals positionals.                                             *)
(***************************************************************************)
MaxFields == 3

MaxPositionals == 4

ArgKeys == <<k_name, k_target, k_mode, k_out, k_port>>

\* the sample CLI with a command ping of the args schema whose i-th field is
\* optional when optional[i]
ArgsCli(optional) ==
  [SampleCli(0, 0) EXCEPT
     !.nodes["ping"].args =
        [i \in 1..Len(optional) |-> Field(ArgKeys[i], <<>>, FALSE, FALSE, optional[i])]]

ArgsClis == {ArgsCli(optional) : optional \in UNION {[1..n -> BOOLEAN] : n \in 0..MaxFields}}

ArgsPositionals == UNION {[1..n -> {t_x, t_y, t_z}] : n \in 0..MaxPositionals}

InitArgs == InitWith(ArgsClis, ArgsPositionals, {1})

\* const { args: argsInput, rest } = prepareArgsInput(argsSchema, positionalArgs)
ArgsStep(p) ==
  /\ pc[p] = "idle"
  /\ ret' = [ret EXCEPT ![p] = prepareArgsInput(cli.nodes["ping"].args, argv[p])]
  /\ pc' = [pc EXCEPT ![p] = "done"]
  /\ UNCHANGED <<cli, argv, calls, validations, output, exit, pipeVars, pos, running,
                 hookVars, trace, stderr, als, maps>>

NextArgs == \E p \in Inv : ArgsStep(p)

SpecArgs == InitArgs /\ [][NextArgs]_vars

(***************************************************************************)
(* The options of a command from the command line to the schema validator: *)
(* parseArgv, the separation of the command's options, resolveAliases,     *)
(* autoParseJson and prepareOptionsInput, for the command start of the     *)
(* sample CLI (port with the alias p, the boolean force with the alias f)  *)
(* on each command line of ParseArgvs.                                     *)
(***************************************************************************)
\* executeCommand, lines 205-237 and 366: optionsInput for what parseArgv gave
OptionsInput(c, cmd, options) ==
  LET globalSchema == IF c.hasGlobalOptions THEN c.globalOptions ELSE <<>>
      cam == extractAliasMap(c.nodes[cmd].options)
      gam == extractAliasMap(globalSchema)
      rawCommandOptions ==
        RawOptions(options, "command", cam, gam, SchemaKeySet(c.nodes[cmd].options),
                   SchemaKeySet(globalSchema))
  IN  prepareOptionsInput(c.nodes[cmd].options,
                          autoParseJson(resolveAliases(rawCommandOptions, cam)))

OptionsStep(p) ==
  /\ pc[p] = "idle"
  /\ \E r \in {parseArgv(argv[p], ParseHints(cli))} :
       /\ parsed' = [parsed EXCEPT ![p] = r]
       /\ ret' = [ret EXCEPT ![p] = IF r.ok THEN OptionsInput(cli, "start", r.options)
                                    ELSE <<>>]
  /\ pc' = [pc EXCEPT ![p] = "done"]
  /\ UNCHANGED <<cli, argv, calls, validations, output, exit, command, fullPath, hookInput,
                 restValues, groupsInPath, globalOptionsValue, userProvidedOptionKeys, pos,
                 running, hookVars, trace, stderr, als, maps>>

NextOptions == \E p \in Inv : OptionsStep(p)

SpecOptions == InitParse /\ [][NextOptions]_vars

(***************************************************************************)
(* parseArgv on its own, one token shape at a time: one call on each list  *)
(* of up to MaxShapeLen of the tokens below, with the hints of a CLI whose *)
(* option po is also a prefix of its option port.                          *)
(***************************************************************************)
MaxShapeLen == 2

k_po == <<"p", "o">>

\* the sample CLI, ping declaring options: { po: String }
ShapeCli ==
  [SampleCli(0, 0) EXCEPT
     !.nodes["ping"].options = <<Field(k_po, <<>>, FALSE, FALSE, TRUE)>>]

\* --port --port=y --port= --port==y --por --por=y --po --p --fo=y --force --z
LongShapes ==
  {Long(k_port), Long(k_port) \o <<EQ>> \o t_y, Long(k_port) \o <<EQ>>,
   Long(k_port) \o <<EQ, EQ>> \o t_y, Long(<<"p", "o", "r">>),
   Long(<<"p", "o", "r">>) \o <<EQ>> \o t_y, Long(k_po), Long(<<"p">>),
   Long(<<"f", "o">>) \o <<EQ>> \o t_y, Long(k_force), Long(t_z)}

\* -f -p -p=y -fp -pf -fw -fw=y -fp=y -pf=y -fpx -=x
ShortShapes ==
  {Short(<<"f">>), Short(<<"p">>), Short(<<"p">>) \o <<EQ>> \o t_y,
   Short(<<"f", "p">>), Short(<<"p", "f">>), Short(<<"f", "w">>),
   Short(<<"f", "w">>) \o <<EQ>> \o t_y, Short(<<"f", "p">>) \o <<EQ>> \o t_y,
   Short(<<"p", "f">>) \o <<EQ>> \o t_y, Short(<<"f", "p", "x">>),
   <<DASH, EQ>> \o t_x}

\* x, the empty string, - and --
ShapeTokens == LongShapes \cup ShortShapes \cup {t_x, <<>>, <<DASH>>, DD}

ShapeArgvs == UNION {[1..n -> ShapeTokens] : n \in 0..MaxShapeLen}

InitShapes == InitWith({ShapeCli}, ShapeArgvs, {1})

SpecShapes == InitShapes /\ [][NextParse]_vars

(***************************************************************************)
(* The separation of the parsed options into the command's and the global  *)
(* ones, on its own: one executeCommand of ping on each list of up to      *)
(* MaxBucketLen of the tokens below, for a CLI whose command and global    *)
(* schemas share keys and aliases, the collaborators accepting everything. *)
(***************************************************************************)
MaxBucketLen == 3

k_prefix == <<"p", "r", "e", "f", "i", "x">>

\* globalOptions { verbose: alias v, prefix: alias p, out }, and ping with
\* options { port: alias p, v, out: alias o }
BucketCli ==
  [SampleCli(0, 0) EXCEPT
     !.globalOptions = <<Field(k_verbose, <<"v">>, TRUE, FALSE, FALSE),
                         Field(k_prefix, <<"p">>, FALSE, FALSE, TRUE),
                         Field(k_out, <<>>, FALSE, FALSE, TRUE)>>,
     !.nodes["ping"].options = <<Field(k_port, <<"p">>, FALSE, FALSE, TRUE),
                                 Field(<<"v">>, <<>>, FALSE, FALSE, TRUE),
                                 Field(k_out, <<"o">>, FALSE, FALSE, TRUE)>>]

\* -p=x --port=y -v --v=y -o=x --out=y --prefix=x --verbose --z
BucketTokens ==
  {Short(<<"p">>) \o <<EQ>> \o t_x, Long(k_port) \o <<EQ>> \o t_y, Short(<<"v">>),
   Long(<<"v">>) \o <<EQ>> \o t_y, Short(<<"o">>) \o <<EQ>> \o t_x,
   Long(k_out) \o <<EQ>> \o t_y, Long(k_prefix) \o <<EQ>> \o t_x, Long(k_verbose),
   Long(t_z)}

BucketArgvs == UNION {[1..n -> BucketTokens] : n \in 0..MaxBucketLen}

InitBuckets == InitWith({BucketCli}, BucketArgvs, {1})

\* every validator accepts, no environment variable is set
Accepting ==
  [global |-> TRUE, rest |-> TRUE, args |-> TRUE, options |-> TRUE, custom |-> "true",
   env |-> [k \in EnvKeys |-> "unset"]]

\* executeCommand, lines 203-238: the two raw records and what resolveAliases
\* makes of them
separateOptions(c, cmd, options) ==
  LET globalSchema == IF c.hasGlobalOptions THEN c.globalOptions ELSE <<>>
      gam == extractAliasMap(globalSchema)
      cam == extractAliasMap(c.nodes[cmd].options)
      cok == SchemaKeySet(c.nodes[cmd].options)
      gok == SchemaKeySet(globalSchema)
      rawCommandOptions == RawOptions(options, "command", cam, gam, cok, gok)
      rawGlobalOptions  == RawOptions(options, "global", cam, gam, cok, gok)
  IN  [rawCommandOptions |-> rawCommandOptions,
       rawGlobalOptions |-> rawGlobalOptions,
       commandOptionsInput |-> autoParseJson(resolveAliases(rawCommandOptions, cam)),
       globalOptionsInput |-> autoParseJson(resolveAliases(rawGlobalOptions, gam))]

\* parseArgv, then executeCommand(cli, ping, parsed, ["ping"])
BucketStep(p) ==
  /\ pc[p] = "idle"
  /\ \E r \in {parseArgv(argv[p], ParseHints(cli))} :
       /\ parsed' = [parsed EXCEPT ![p] = r]
       /\ ret' = [ret EXCEPT ![p] =
            [separated |-> separateOptions(cli, "ping", r.options),
             result |-> ExecResult(cli, r, "ping", <<t_ping>>, Accepting)]]
  /\ pc' = [pc EXCEPT ![p] = "done"]
  /\ UNCHANGED <<cli, argv, calls, validations, output, exit, command, fullPath, hookInput,
                 restValues, groupsInPath, globalOptionsValue, userProvidedOptionKeys, pos,
                 running, hookVars, trace, stderr, als, maps>>

NextBuckets == \E p \in Inv : BucketStep(p)

SpecBuckets == InitBuckets /\ [][NextBuckets]_vars

(***************************************************************************)
(* The context tokens used from user code: token.get() and token.set(v)    *)
(* called before run, inside a hook or the action, and after the exit, by  *)
(* one invocation of ping.                                                 *)
(***************************************************************************)
InitCtx == InitWith({SampleCli(0, 0)}, {<<t_ping>>}, {1})

\* user code of invocation p can run: before run, inside a hook or the
\* action, or after the invocation is done
UserCodeRuns(p) == pc[p] \in {"idle", "done"} \/ (pc[p] = "hooks" /\ running[p])

\* token.get(): ret[p] keeps what it returned or threw
TokenGet(p) ==
  /\ UserCodeRuns(p)
  /\ \E tok \in Tokens :
       ret' = [ret EXCEPT ![p] =
                 [op |-> "get", tok |-> tok, value |-> NO_DEFAULT,
                  r |-> Get(maps, als[p], tok)]]
  /\ UNCHANGED <<cli, argv, pc, calls, validations, output, exit, pipeVars, pos, running,
                 hookVars, trace, stderr, als, maps>>

\* token.set(value): the Maps after it, and in ret[p] whether it threw
TokenSet(p) ==
  /\ UserCodeRuns(p)
  /\ \E tok \in Tokens, value \in UserValues :
       /\ maps' = setContextValue(maps, als[p], tok, UserCtxValue(p, value))
       /\ ret' = [ret EXCEPT ![p] =
                    [op |-> "set", tok |-> tok, value |-> UserCtxValue(p, value),
                     r |-> [ok |-> setContextError(als[p]) = "", value |-> NO_DEFAULT,
                            error |-> setContextError(als[p])]]]
  /\ UNCHANGED <<cli, argv, pc, calls, validations, output, exit, pipeVars, pos, running,
                 hookVars, trace, stderr, als>>

NextCtx == Next \/ \E p \in Inv : TokenGet(p) \/ TokenSet(p)

SpecCtx == InitCtx /\ [][NextCtx]_vars

(***************************************************************************)
(* run on command lines that name a group with a default command: the      *)
(* sample CLI with one hook of each kind, status taking rest arguments and *)
(* being the default command of db as well as of server.                   *)
(***************************************************************************)
DefaultCli ==
  [SampleCli(1, 1) EXCEPT
     !.nodes["status"].hasRest = TRUE,
     !.nodes["db"].defaultCommand = "status"]

DefaultArgvs ==
  { <<t_server>>, <<t_server, t_x>>, <<t_sv, t_x, t_y>>,
    <<t_server, t_db>>, <<t_server, t_db, t_x, t_y>>, <<t_server, t_db, t_x, t_y, t_z>> }

InitDefault == InitWith({DefaultCli}, DefaultArgvs, {1})

SpecDefault == InitDefault /\ [][Next]_vars

(***************************************************************************)
(* Properties.  What they say about the CLI definition is read from the    *)
(* definition itself, not from what run computed.                          *)
(***************************************************************************)
\* the group that holds node n as a subcommand or as its default command
ParentOf(c, n) ==
  LET holders == {g \in DOMAIN c.nodes :
                    /\ c.nodes[g].type = "group"
                    /\ \/ Includes(c.nodes[g].subCommands, n)
                       \/ c.nodes[g].defaultCommand = n}
  IN  IF holders = {} THEN NoNode ELSE CHOOSE g \in holders : TRUE

\* the groups around node n, innermost first
RECURSIVE GroupsAround(_, _)
GroupsAround(c, n) ==
  IF ParentOf(c, n) = NoNode THEN <<>>
  ELSE <<ParentOf(c, n)>> \o GroupsAround(c, ParentOf(c, n))

\* the same, outermost first
RECURSIVE GroupsDownTo(_, _)
GroupsDownTo(c, n) ==
  IF ParentOf(c, n) = NoNode THEN <<>>
  ELSE Append(GroupsDownTo(c, ParentOf(c, n)), ParentOf(c, n))

\* the number of hooks of a kind declared at a level ("cli" or a node)
Declared(c, level, kind) ==
  IF level = "cli"
  THEN (IF kind = "preAction" THEN c.preAction ELSE c.postAction)
  ELSE (IF kind = "preAction" THEN c.nodes[level].preAction ELSE c.nodes[level].postAction)

\* the calls of the hooks of a kind at the given levels, level by level and
\* in declaration order inside a level
RECURSIVE HookCalls(_, _, _)
HookCalls(c, levels, kind) ==
  IF levels = <<>> THEN <<>>
  ELSE [k \in 1..Declared(c, Head(levels), kind) |->
          [fn |-> kind, level |-> Head(levels), index |-> k]]
       \o HookCalls(c, Tail(levels), kind)

PreLevels(c, cmd) == <<"cli">> \o GroupsDownTo(c, cmd) \o <<cmd>>

PostLevels(c, cmd) == <<cmd>> \o GroupsAround(c, cmd) \o <<"cli">>

\* the user functions invocation p has called, in the order of the calls
CallsOf(p) ==
  [i \in 1..Len(trace[p]) |->
     [fn |-> trace[p][i].fn, level |-> trace[p][i].level, index |-> trace[p][i].index]]

IsPre(e) == e.fn = "preAction"

IsPost(e) == e.fn = "postAction"

IsAction(e) == e.fn = "action"

\* invocation p went through executeWithHooks and has reported its status
Exited(p) == exit[p] # <<>> /\ Includes(calls[p], "executeWithHooks")

\* how often p called the k-th hook of a kind at a level
TimesCalled(p, kind, level, k) ==
  Cardinality({i \in 1..Len(trace[p]) :
                 /\ trace[p][i].fn = kind
                 /\ trace[p][i].level = level
                 /\ trace[p][i].index = k})

\* C1: when an invocation that reached executeWithHooks reports its exit
\* status, every postAction hook declared on the command, on each group around
\* it and on the CLI has been called exactly once, however the pre phases and
\* the action ended; after an abort each was handed success = false and
\* aborted = true
C1_PostHooksAlwaysRun ==
  \A p \in Inv :
    Exited(p) =>
      /\ \A i \in 1..Len(PostLevels(cli, command[p])) :
           \A k \in 1..Declared(cli, PostLevels(cli, command[p])[i], "postAction") :
             TimesCalled(p, "postAction", PostLevels(cli, command[p])[i], k) = 1
      /\ aborted[p] =>
           \A i \in 1..Len(trace[p]) :
             IsPost(trace[p][i]) =>
               ~trace[p][i].result.success /\ trace[p][i].result.aborted

\* a CLI-level abort on a nested command: the post hooks of the command, of
\* both groups and of the CLI have run although their pre hooks never did
C1_Witness ==
  \E p \in Inv :
    /\ Exited(p) /\ aborted[p]
    /\ command[p] = "migrate"
    /\ cli.postAction = MaxHooks
    /\ Len(SelectSeq(trace[p], IsPre)) = 1
    /\ Len(SelectSeq(trace[p], IsPost)) = MaxHooks + 4

\* C2: once a preAction hook has aborted (by returning abort or by throwing),
\* the only user functions called afterwards are postAction hooks: no later
\* hook of the same list, no hook of a later pre phase and not the action
C2_AbortSkipsPreAndAction ==
  [][\A p \in Inv :
       aborted[p] /\ trace'[p] # trace[p] => IsPost(trace'[p][Len(trace'[p])])]_vars

\* the first of the CLI's preAction hooks aborted: the second one, the hooks
\* of the groups and the command and the action were skipped, post hooks ran
C2_Witness ==
  \E p \in Inv :
    /\ Exited(p) /\ aborted[p]
    /\ cli.preAction = MaxHooks
    /\ command[p] = "start"
    /\ SelectSeq(CallsOf(p), IsPre) = <<[fn |-> "preAction", level |-> "cli", index |-> 1]>>
    /\ SelectSeq(trace[p], IsPost) # <<>>

\* C3: without an abort the calls are, in this order: the CLI's preAction
\* hooks, those of the groups from the outermost to the innermost, those of
\* the command, the action, the command's postAction hooks, those of the
\* groups from the innermost to the outermost, those of the CLI; declaration
\* order inside each list
C3_HookOrder ==
  \A p \in Inv :
    Exited(p) /\ ~aborted[p] =>
      CallsOf(p) = HookCalls(cli, PreLevels(cli, command[p]), "preAction")
                   \o <<[fn |-> "action", level |-> command[p], index |-> 0]>>
                   \o HookCalls(cli, PostLevels(cli, command[p]), "postAction")

\* a command inside two nested groups, with MaxHooks CLI hooks of each kind
C3_Witness ==
  \E p \in Inv :
    /\ Exited(p) /\ ~aborted[p]
    /\ command[p] = "migrate"
    /\ cli.preAction = MaxHooks /\ cli.postAction = MaxHooks
    /\ Len(trace[p]) = 2 * MaxHooks + 8

\* the status the outcome of the pre phases and the action calls for
StatusFor(p) == IF ~aborted[p] /\ actionSuccess[p] THEN 0 ELSE 1

\* C4: when postAction hooks have thrown, every declared postAction hook has
\* still been called, each with the ActionResult computed before the first
\* one, and the exit status is 0 if the action completed and 1 if a pre hook
\* aborted or the action threw
C4_PostHookErrorsIgnored ==
  \A p \in Inv :
    Exited(p) /\ stderr[p] # <<>> =>
      /\ SelectSeq(CallsOf(p), IsPost) = HookCalls(cli, PostLevels(cli, command[p]), "postAction")
      /\ \A i \in 1..Len(trace[p]) :
           IsPost(trace[p][i]) => trace[p][i].result = postActionResult[p]
      /\ postActionResult[p].success = (~aborted[p] /\ actionSuccess[p])
      /\ exit[p] = <<StatusFor(p)>>

\* every postAction hook of a nested command threw, the action had
\* completed: status 0
C4_Witness ==
  \E p \in Inv :
    /\ Exited(p) /\ exit[p] = <<0>>
    /\ command[p] = "start"
    /\ Len(stderr[p]) >= 3
    /\ Len(stderr[p]) = Len(SelectSeq(trace[p], IsPost))

\* the ActionResult for the way the pre phases and the action ended
ResultFor(p) ==
  IF aborted[p] THEN [success |-> FALSE, error |-> abortReason[p], aborted |-> TRUE]
  ELSE IF actionSuccess[p] THEN [success |-> TRUE, error |-> NoError, aborted |-> FALSE]
  ELSE [success |-> FALSE, error |-> actionError[p], aborted |-> FALSE]

\* C5: every postAction hook is handed the same ActionResult, fixed before
\* the first of them is called: success alone when the action completed,
\* success = false with the error and no aborted flag when the action threw,
\* success = false, aborted = true and the abort reason as error after an abort
C5_ActionResult ==
  \A p \in Inv :
    /\ \A i \in 1..Len(trace[p]) :
         IsPost(trace[p][i]) =>
           /\ trace[p][i].result = ResultFor(p)
           /\ ~aborted[p] /\ ~actionSuccess[p] => trace[p][i].result.error # NoError
    /\ (pc[p] = "hooks" /\ pos[p].phase \in PostPhases) => postActionResult[p] = ResultFor(p)

\* the action threw and several postAction hooks were handed the result
C5_Witness ==
  \E p \in Inv :
    /\ Exited(p) /\ ~aborted[p] /\ ~actionSuccess[p]
    /\ Len(SelectSeq(trace[p], IsPost)) >= 3

\* C6: the status run reports is 0 when it printed help or the version and
\* when the action completed, and 1 when it printed an error (failed
\* validation, constraint violation, unknown command or option, abort of a
\* preAction hook, exception of the action); it reports one status, 0 or 1
C6_ExitStatus ==
  \A p \in Inv :
    exit[p] # <<>> =>
      /\ exit[p] \in {<<0>>, <<1>>}
      /\ output[p].kind \in {"help", "version"} => exit[p] = <<0>>
      /\ output[p].kind = "error" => exit[p] = <<1>>
      /\ Exited(p) /\ ~aborted[p] /\ actionSuccess[p] => exit[p] = <<0>>
      /\ Exited(p) /\ (aborted[p] \/ ~actionSuccess[p]) => exit[p] = <<1>>
      /\ exit[p] = <<0>> =>
           \/ output[p].kind \in {"help", "version"}
           \/ Exited(p) /\ ~aborted[p] /\ actionSuccess[p]

\* the action threw after its preAction hooks had let it run
C6_Witness ==
  \E p \in Inv :
    /\ Exited(p) /\ ~aborted[p] /\ ~actionSuccess[p]
    /\ exit[p] = <<1>>
    /\ output[p] = printErrorAndExit("Error", command[p])

\* the messages of the errors of run and executeCommand
PipelineErrors ==
  {"ambiguous option", "Unknown command", "Unknown option", "Invalid global options",
   "Invalid rest arguments", "Too many arguments", "Invalid arguments", "Invalid options",
   "Constraint violations"}

\* no store, no hook, no action and status 1
EndedBeforeHooks(p) ==
  /\ pc[p] = "done" /\ exit[p] = <<1>>
  /\ trace[p] = <<>>
  /\ als[p] = <<>>
  /\ ~Includes(calls[p], "als.run")
  /\ ~Includes(calls[p], "executeWithHooks")

\* the sections the validator has to accept for the command line of p
SectionsOf(p) ==
  (IF cli.hasGlobalOptions THEN <<"globalOptions">> ELSE <<>>)
  \o (IF /\ cli.nodes[command[p]].hasRest
         /\ Len(parsed[p].positionals) - Len(fullPath[p]) > Len(cli.nodes[command[p]].args)
      THEN <<"rest">> ELSE <<>>)
  \o <<"args", "options">>

\* C7: an invocation that reported a parse error, an unknown command, an
\* unknown option, an invalid section or a constraint violation, and any
\* invocation in which the validator rejected a section, ended with status 1
\* without a context store and without a call of a hook or the action; the
\* constraints are checked only when the validator has accepted every section
C7_ErrorsEndBeforeHooks ==
  \A p \in Inv :
    /\ output[p].kind = "error" /\ output[p].message \in PipelineErrors => EndedBeforeHooks(p)
    /\ (\E i \in 1..Len(validations[p]) : ~validations[p][i].isOk) =>
         EndedBeforeHooks(p) /\ ~Includes(calls[p], "checkConstraints")
    /\ Includes(calls[p], "checkConstraints") =>
         /\ [i \in 1..Len(validations[p]) |-> validations[p][i].section] = SectionsOf(p)
         /\ \A i \in 1..Len(validations[p]) : validations[p][i].isOk

\* a constraint violation on a command line with rest arguments
C7_Witness ==
  \E p \in Inv :
    /\ output[p].message = "Constraint violations"
    /\ Len(validations[p]) = 4
    /\ EndedBeforeHooks(p)

\* what invocation p reads under a token in the outermost of its stores
Outer(p, tok) == Get(maps, SubSeq(als[p], 1, 1), tok)

\* C8: of two interleaved invocations each has stores of its own: what one
\* reads under a token was written by itself, a set is read back by the
\* invocation that made it and changes what the other reads under no token,
\* and while an invocation is in a nested store its outer store keeps its
\* values
C8_StoresSeparate ==
  [][\A p \in Inv :
       /\ \A tok \in Tokens :
            (Get(maps', als'[p], tok).ok /\ Get(maps', als'[p], tok).value # TokenDefault(tok))
            => Get(maps', als'[p], tok).value.by = p
       /\ \A tok \in Tokens, value \in UserValues :
            (/\ pc[p] = "hooks" /\ running[p] /\ als' = als
             /\ maps' = setContextValue(maps, als[p], tok, UserCtxValue(p, value))) =>
              /\ Get(maps', als'[p], tok) =
                   [ok |-> TRUE, value |-> UserCtxValue(p, value), error |-> ""]
              /\ \A q \in Inv \ {p} : \A t \in Tokens :
                   Get(maps', als'[q], t) = Get(maps, als[q], t)
       /\ (Len(als[p]) = 2 /\ Len(als'[p]) >= 1) =>
            \A tok \in Tokens : Outer(p, tok)' = Outer(p, tok)]_vars

\* both invocations are inside a hook or the action, one of them in a nested
\* store; each has set the user token
C8_Witness ==
  \E p \in Inv, q \in Inv :
    /\ p # q
    /\ Len(als[p]) = 2 /\ Len(als[q]) = 1
    /\ Get(maps, als[p], "user").ok /\ Outer(p, "user").ok
    /\ Get(maps, als[q], "user").ok /\ Get(maps, als[q], "user").value.by = q
    /\ ~Get(maps, als[p], "globalOptions").ok
    /\ Outer(p, "globalOptions").ok

\* C9: from the call of the first hook to the exit, the outermost store of
\* the invocation holds, under the globalOptionsContext token, the validated
\* global options (or what a hook has set there); when the first hook is
\* about to be called the store holds nothing else
C9_GlobalOptionsInContext ==
  \A p \in Inv :
    pc[p] = "hooks" =>
      /\ Len(als[p]) >= 1
      /\ Outer(p, "globalOptions").ok
      /\ \/ Outer(p, "globalOptions").value = GlobalCtxValue(p, globalOptionsValue[p])
         \/ Outer(p, "globalOptions").value.kind = "user"
      /\ trace[p] = <<>> =>
           /\ als[p] = <<als[p][1]>>
           /\ Outer(p, "globalOptions").value = GlobalCtxValue(p, globalOptionsValue[p])
           /\ \A tok \in Tokens \ {"globalOptions"} : maps[als[p][1]][tok] = <<>>

\* a CLI-level postAction hook is running and reads the global options the
\* command line gave
C9_Witness ==
  \E p \in Inv :
    /\ pc[p] = "hooks" /\ running[p] /\ pos[p].phase = "cliPost"
    /\ globalOptionsValue[p] # <<>>
    /\ HasKey(parsed[p].options, <<"v">>)
    /\ Outer(p, "globalOptions").value = GlobalCtxValue(p, globalOptionsValue[p])

\* token is on the command line before the first --
BeforeDD(av, token) ==
  \E i \in 1..Len(av) : av[i] = token /\ \A j \in 1..(i - 1) : av[j] # DD

HelpAsked(av) == BeforeDD(av, T_help) \/ BeforeDD(av, T_h)

C11_StopParsing ==
  \A p \in Inv :
    pc[p] = "done" /\ parsed[p].ok /\ Includes(argv[p], DD) =>
      LET k      == IndexOf(argv[p], DD)
          before == parseArgv(Slice(argv[p], 0, k), ParseHints(cli))
      IN  /\ parsed[p].positionals = before.positionals \o SliceFrom(argv[p], k + 1)
          /\ parsed[p].options = before.options

\* the candidate path of length d resolves to a command or a group
Resolves(c, args, d) ==
  findCommandAtPath(c.nodes, c.commands, Slice(args, 0, d)).type \in {"command", "group"}

Names(c, id) == {c.nodes[id].path} \cup {c.nodes[id].aliases[i] : i \in 1..Len(c.nodes[id].aliases)}

\* the first k of args are a path to a group whose default command is not
\* among its sub-commands, the next one is a name of the default command
\* and of no sub-command: the group, or NoNode
DefaultAt(c, args, k) ==
  LET g == findCommandAtPath(c.nodes, c.commands, Slice(args, 0, k))
  IN  IF /\ k < Len(args) /\ g.type = "group"
         /\ c.nodes[g.node].defaultCommand # NoNode
         /\ ~Includes(c.nodes[g.node].subCommands, c.nodes[g.node].defaultCommand)
         /\ args[k + 1] \in Names(c, c.nodes[g.node].defaultCommand)
         /\ \A i \in 1..Len(c.nodes[g.node].subCommands) :
              args[k + 1] \notin Names(c, c.nodes[g.node].subCommands[i])
      THEN g.node ELSE NoNode

LevelAt(c, args, k) ==
  IF k = 0 THEN c.commands
  ELSE LET g == findCommandAtPath(c.nodes, c.commands, Slice(args, 0, k))
       IN  IF g.type = "group" THEN c.nodes[g.node].subCommands ELSE <<>>

\* C14: at one level of the tree, a node whose path equals the segment is
\* chosen over a sibling that only lists the segment among its aliases, in
\* whichever order the two are declared
C14_PathBeatsAlias ==
  \A p \in Inv :
    pc[p] = "done" /\ Len(argv[p]) >= 1 =>
      LET s     == argv[p][Len(argv[p])]
          level == LevelAt(cli, argv[p], Len(argv[p]) - 1)
      IN  \A i, j \in 1..Len(level) :
            /\ cli.nodes[level[i]].path = s
            /\ cli.nodes[level[j]].path # s
            /\ Includes(cli.nodes[level[j]].aliases, s)
            => ret[p].node = level[i]

\* C15: when a sub-command or sub-group of a group has a path or alias equal
\* to the path or an alias of the group's default command, a segment with
\* that text resolves to the sub-command, never to the default command; the
\* default command is returned only when no sub-command matches the segment
C15_SubCommandBeatsDefault ==
  \A p \in Inv :
    pc[p] = "done" /\ Len(argv[p]) >= 2 =>
      LET s  == argv[p][Len(argv[p])]
          g  == findCommandAtPath(cli.nodes, cli.commands,
                                  SubSeq(argv[p], 1, Len(argv[p]) - 1))
          gn == cli.nodes[g.node]
          matching == {i \in 1..Len(gn.subCommands) : s \in Names(cli, gn.subCommands[i])}
      IN  g.type = "group" /\ gn.defaultCommand # NoNode
          /\ ~Includes(gn.subCommands, gn.defaultCommand)
          /\ s \in Names(cli, gn.defaultCommand)
          => /\ matching # {} =>
                  /\ ret[p].node \in {gn.subCommands[i] : i \in matching}
                  /\ ret[p].node # gn.defaultCommand
                  /\ ret[p].pathArgs = argv[p]
             /\ ret[p].node = gn.defaultCommand => matching = {}

\* server status: the path of the default command is an alias of the
\* sub-group db, and the group is returned
C15_Witness ==
  \E p \in Inv :
    /\ pc[p] = "done" /\ argv[p] = <<t_server, t_status>>
    /\ Includes(cli.nodes["server"].subCommands, "db")
    /\ cli.nodes["server"].defaultCommand = "status"
    /\ ret[p].type = "group" /\ ret[p].node = "db"

\* the elements of a list
Range(seq) == {seq[i] : i \in 1..Len(seq)}

\* a declarative constraint is violated by the set P of present keys
Violates(c, P) ==
  CASE c.type = "exclusive" -> Cardinality(Range(c.options) \cap P) >= 2
    [] c.type = "dependsOn" -> c.option \in P /\ Range(c.requires) \ P # {}
    [] c.type = "requiredTogether" ->
         Range(c.options) \cap P # {} /\ Range(c.options) \ P # {}
    [] OTHER -> FALSE

\* the options of its command that invocation p has on its command line,
\* under their name or their alias
SuppliedKeys(p) ==
  {f.key : f \in {g \in Range(cli.nodes[command[p]].options) :
                    \/ HasKey(parsed[p].options, g.key)
                    \/ g.alias # <<>> /\ HasKey(parsed[p].options, g.alias)}}

\* the non-optional boolean options that neither the command line nor an
\* environment binding gives: prepareOptionsInput injects their default
InjectedKeys(p) ==
  {f.key : f \in {g \in Range(cli.nodes[command[p]].options) :
                    g.isBoolean /\ ~g.isOptional}}
  \ (SuppliedKeys(p) \cup Range(cli.nodes[command[p]].envBindings))

ConstraintsFailed(p) ==
  pc[p] = "done" /\ exit[p] = <<1>> /\ output[p].message = "Constraint violations"

\* C16: the constraints are evaluated against the option keys present before
\* the boolean defaults are injected: an option injected as false (or as an
\* empty list) is never present for an exclusive, dependsOn or
\* requiredTogether constraint, an option the user supplied is present
\* whatever its value
C16_ConstraintsOnSuppliedKeys ==
  \A p \in Inv :
    Includes(calls[p], "checkConstraints") =>
      LET cmd  == cli.nodes[command[p]]
          P    == userProvidedOptionKeys[p]
          decl == {c \in Range(cmd.constraints) : c.type # "custom"}
      IN  /\ SuppliedKeys(p) \subseteq P
          /\ P \subseteq SuppliedKeys(p) \cup Range(cmd.envBindings)
          /\ InjectedKeys(p) \cap P = {}
          /\ (\E c \in decl : Violates(c, P)) => ConstraintsFailed(p)
          /\ ConstraintsFailed(p) /\ decl = Range(cmd.constraints) =>
               \E c \in decl : Violates(c, P)
          /\ ~ConstraintsFailed(p) =>
               \A k \in InjectedKeys(p) :
                 /\ HasKey(hookInput[p].options, k)
                 /\ hookInput[p].options[KeyIndex(hookInput[p].options, k)].value
                      \in {Scalar(FalseVal), EmptyList}

\* server start: force is injected as false and port is absent, and the
\* constraint that force depends on port is not violated
C16_Witness ==
  \E p \in Inv :
    /\ argv[p] = <<t_server, t_start>> /\ pc[p] = "hooks"
    /\ userProvidedOptionKeys[p] = {}
    /\ InjectedKeys(p) = {k_force}
    /\ hookInput[p].options = <<[key |-> k_force, value |-> Scalar(FalseVal)]>>
    /\ \E c \in Range(cli.nodes["start"].constraints) :
         c.type = "dependsOn" /\ c.option = k_force /\ Violates(c, {k_force})

\* C17: checkConstraints, given the set P of user-supplied keys, reports
\* exclusive(keys) iff two or more of keys are in P, dependsOn(key, requires)
\* iff key is in P and some member of requires is not, requiredTogether(keys)
\* iff some but not all of keys are in P, custom(check) iff check returns
\* false or throws; the result is valid iff no constraint is violated, and
\* errors holds exactly one message per violated constraint, in declaration
\* order
C17_CheckConstraints ==
  \A p \in Inv :
    pc[p] = "done" =>
      LET cs     == cli.nodes["ping"].constraints
          errors == ret[p].check.errors
          bad    == {i \in 1..Len(cs) :
                       IF cs[i].type = "custom" THEN ret[p].custom[i] \in {"false", "throw"}
                       ELSE Violates(cs[i], userProvidedOptionKeys[p])}
      IN  /\ ret[p].check.valid <=> bad = {}
          /\ Len(errors) = Cardinality(bad)
          /\ {errors[j].constraint : j \in 1..Len(errors)} = bad
          /\ \A j, k \in 1..Len(errors) : j < k => errors[j].constraint < errors[k].constraint

\* two constraints, both violated, the first by a predicate that throws:
\* both are reported, in their order
C17_Witness ==
  \E p \in Inv :
    /\ pc[p] = "done" /\ Len(cli.nodes["ping"].constraints) >= 2
    /\ cli.nodes["ping"].constraints[1].type = "custom" /\ ret[p].custom[1] = "throw"
    /\ cli.nodes["ping"].constraints[2].type = "requiredTogether"
    /\ ~ret[p].check.valid
    /\ ret[p].check.errors = <<ConstraintError(1, TRUE), ConstraintError(2, FALSE)>>

\* the place of field i of schema in the sequence of the required fields, in
\* declaration order, followed by the optional fields, in declaration order
RankOf(schema, i) ==
  IF ~schema[i].isOptional
  THEN Cardinality({j \in 1..i : ~schema[j].isOptional})
  ELSE Cardinality({j \in 1..Len(schema) : ~schema[j].isOptional})
       + Cardinality({j \in 1..i : schema[j].isOptional})

\* C18: prepareArgsInput assigns the positionals to the required fields in
\* declaration order and then to the optional fields in declaration order:
\* with n positionals and k fields, exactly the first min(n, k) fields of
\* that sequence are set, the i-th of them to the i-th positional
C18_RequiredBeforeOptional ==
  \A p \in Inv :
    pc[p] = "done" =>
      LET schema == cli.nodes["ping"].args
          args   == ret[p].args
          n      == Min(Len(argv[p]), Len(schema))
      IN  /\ Len(args) = n
          /\ \A i \in 1..Len(schema) :
               IF RankOf(schema, i) <= n
               THEN /\ Cardinality({j \in 1..Len(args) : args[j].key = schema[i].key}) = 1
                    /\ \A j \in 1..Len(args) :
                         args[j].key = schema[i].key => args[j].value = argv[p][RankOf(schema, i)]
               ELSE \A j \in 1..Len(args) : args[j].key # schema[i].key

\* {a: required, b: optional, c: required} with x, y: a = x, c = y, b unset
C18_Witness ==
  \E p \in Inv :
    /\ pc[p] = "done" /\ argv[p] = <<t_x, t_y>>
    /\ Len(cli.nodes["ping"].args) = 3
    /\ ~cli.nodes["ping"].args[1].isOptional
    /\ cli.nodes["ping"].args[2].isOptional
    /\ ~cli.nodes["ping"].args[3].isOptional
    /\ ret[p].args = <<[key |-> ArgKeys[1], value |-> t_x], [key |-> ArgKeys[3], value |-> t_y]>>

\* the option occurrences token i of a command line of ParseTokens makes,
\* read by the rules of the parser: --port, its abbreviation --po, -p and
\* the undeclared --toString take the next token as their value when it does
\* not start with a dash, -f is a flag, -fp is -f followed by -p
OccurrencesAt(av, i) ==
  LET taken == IF NextIsValue(av, i) THEN StrVal(av[i + 1]) ELSE TrueVal
      occ(k, v) == [key |-> k, value |-> v]
  IN  CASE av[i] \in {Long(k_port), T_po} -> <<occ(k_port, taken)>>
        [] av[i] = T_port_y         -> <<occ(k_port, StrVal(t_y))>>
        [] av[i] = Short(<<"p">>)   -> <<occ(<<"p">>, taken)>>
        [] av[i] = T_p_y            -> <<occ(<<"p">>, StrVal(t_y))>>
        [] av[i] = Short(<<"f">>)   -> <<occ(<<"f">>, TrueVal)>>
        [] av[i] = T_fp             -> <<occ(<<"f">>, TrueVal), occ(<<"p">>, taken)>>
        [] av[i] = T_toString       -> <<occ(SliceFrom(T_toString, 2), taken)>>
        [] OTHER -> <<>>

\* the option occurrences of a command line from token i, up to the first --
RECURSIVE Occurrences(_, _)
Occurrences(av, i) ==
  IF i > Len(av) \/ av[i] = DD THEN <<>>
  ELSE IF OccurrencesAt(av, i) = <<>> THEN Occurrences(av, i + 1)
  ELSE OccurrencesAt(av, i)
       \o Occurrences(av, IF av[i] \notin {T_port_y, T_p_y, Short(<<"f">>)} /\ NextIsValue(av, i)
                          THEN i + 2 ELSE i + 1)

\* the values of the occurrences of the keys, in order
RECURSIVE ValuesOf(_, _)
ValuesOf(occs, keys) ==
  IF occs = <<>> THEN <<>>
  ELSE (IF Head(occs).key \in keys THEN <<Head(occs).value>> ELSE <<>>)
       \o ValuesOf(Tail(occs), keys)

\* C19: parseArgv never drops or overwrites an option occurrence: the values
\* stored under a key are exactly the values of the occurrences of that key
\* on the command line, in order of occurrence, as a scalar for one
\* occurrence and as an array for two or more
C19_OccurrencesAccumulate ==
  \A p \in Inv :
    pc[p] = "done" /\ parsed[p].ok =>
      LET occs == Occurrences(argv[p], 1)
          opts == parsed[p].options
      IN  /\ KeySet(opts) = {occs[i].key : i \in 1..Len(occs)}
          /\ \A j \in 1..Len(opts) :
               /\ opts[j].value.items = ValuesOf(occs, {opts[j].key})
               /\ opts[j].value.isArray <=> Len(ValuesOf(occs, {opts[j].key})) >= 2

\* C20: an option whose field is not a list and that occurs more than once,
\* under its long name, its short alias or a mix of both, is handed to the
\* schema validation with the value of its last occurrence on the command
\* line
C20_LastOccurrenceWins ==
  \A p \in Inv :
    pc[p] = "done" /\ parsed[p].ok =>
      \A f \in Range(cli.nodes["start"].options) :
        LET values == ValuesOf(Occurrences(argv[p], 1), {f.key, f.alias})
        IN  ~f.isList /\ Len(values) >= 2 =>
              /\ HasKey(ret[p], f.key)
              /\ ret[p][KeyIndex(ret[p], f.key)].value = Scalar(values[Len(values)])

\* the 1-based index of the first "=" of a token, 0 when it has none
EqAt(tok) ==
  IF \E i \in 1..Len(tok) : tok[i] = EQ
  THEN CHOOSE i \in 1..Len(tok) : tok[i] = EQ /\ \A j \in 1..(i - 1) : tok[j] # EQ
  ELSE 0

\* a long option token: --name or --name=value, the name not empty
IsLong(tok) == Len(tok) > 2 /\ SubSeq(tok, 1, 2) = DD /\ tok[3] # EQ

LongName(tok) ==
  IF EqAt(tok) = 0 THEN SubSeq(tok, 3, Len(tok)) ELSE SubSeq(tok, 3, EqAt(tok) - 1)

\* the known options a name abbreviates
Candidates(name, known) ==
  {k \in Range(known) : Len(k) >= Len(name) /\ SubSeq(k, 1, Len(name)) = name}

\* the key a long option name stands for: itself when it is a known option or
\* abbreviates none, the one option it abbreviates when there is exactly one
CanonicalKey(name, known) ==
  IF name \in Range(known) \/ Cardinality(Candidates(name, known)) # 1 THEN name
  ELSE CHOOSE k \in Candidates(name, known) : TRUE

\* what a long option token followed by next (<<next>>, or <<>> when the token
\* is the last) is to give: its key, its value, and whether next is consumed
LongExpected(c, tok, rest) ==
  LET hints == ParseHints(c)
      key   == CanonicalKey(LongName(tok), hints.knownOptions)
      takes == /\ EqAt(tok) = 0
               /\ key \notin hints.booleanOptions
               /\ rest # <<>>
               /\ (rest[1] = <<>> \/ rest[1][1] # DASH)
  IN  [key |-> key,
       value |-> IF EqAt(tok) # 0 THEN StrVal(SubSeq(tok, EqAt(tok) + 1, Len(tok)))
                 ELSE IF takes THEN StrVal(rest[1])
                 ELSE TrueVal,
       consumed |-> takes]

\* C21: a long option token --key=value sets key to the text after its first
\* "=" (the empty text included); --key sets key to true, consuming nothing,
\* when key is a declared boolean, and otherwise takes the next token as its
\* value if there is one that does not start with "-", else sets key to true;
\* a token taken as a value is not a positional as well.  Checked on a long
\* option token alone or followed by one more token.
C21_LongOptions ==
  \A p \in Inv :
    (/\ pc[p] = "done" /\ parsed[p].ok
     /\ Len(argv[p]) \in 1..2 /\ IsLong(argv[p][1]))
    => LET e    == LongExpected(cli, argv[p][1], Tail(argv[p]))
           opts == parsed[p].options
       IN  /\ opts # <<>>
           /\ opts[1].key = e.key
           /\ opts[1].value.items[1] = e.value
           /\ e.consumed => /\ parsed[p].positionals = <<>>
                            /\ opts = <<[key |-> e.key, value |-> Scalar(e.value)]>>
           /\ (~e.consumed /\ Len(argv[p]) = 2
               /\ (argv[p][2] = <<>> \/ argv[p][2][1] # DASH))
              => parsed[p].positionals = <<argv[p][2]>>

\* token i of av is read as a long option (no "--" before it) whose name is
\* no known option and abbreviates two or more of them
AmbiguousAt(c, av, i) ==
  LET known == ParseHints(c).knownOptions
  IN  /\ IsLong(av[i])
      /\ \A j \in 1..(i - 1) : av[j] # DD
      /\ LongName(av[i]) \notin Range(known)
      /\ Cardinality(Candidates(LongName(av[i]), known)) >= 2

\* C22: parseArgv returns on every token list, and fails exactly when a long
\* option before the first "--" abbreviates two or more known options without
\* being one itself; the error names the abbreviation and every candidate.
\* A name that is a known option is kept even when it is a prefix of others,
\* a unique abbreviation is expanded and keeps its =value, and a name that
\* matches nothing is passed through.
C22_OnlyAmbiguityFails ==
  \A p \in Inv :
    pc[p] = "done"
    => LET av    == argv[p]
           known == ParseHints(cli).knownOptions
           amb   == {i \in 1..Len(av) : AmbiguousAt(cli, av, i)}
       IN  /\ parsed[p].ok <=> amb = {}
           /\ amb # {}
              => LET i    == CHOOSE i \in amb : \A j \in amb : i <= j
                     cand == Candidates(LongName(av[i]), known)
                 IN  /\ Len(parsed[p].error) = 1 + Cardinality(cand)
                     /\ parsed[p].error[1] = DD \o LongName(av[i])
                     /\ Range(Tail(parsed[p].error)) = {DD \o k : k \in cand}
           /\ (amb = {} /\ Len(av) = 1 /\ IsLong(av[1]))
              => /\ Len(parsed[p].options) = 1
                 /\ parsed[p].options[1].key = CanonicalKey(LongName(av[1]), known)
                 /\ EqAt(av[1]) # 0
                    => parsed[p].options[1].value =
                         Scalar(StrVal(SubSeq(av[1], EqAt(av[1]) + 1, Len(av[1]))))

\* --p abbreviates both port and po: the call fails naming --port and --po
C22_Witness ==
  /\ pc[1] = "done" /\ argv[1] = <<Long(<<"p">>)>>
  /\ ~parsed[1].ok
  /\ parsed[1].error = <<Long(<<"p">>), Long(k_port), Long(k_po)>>

\* the characters of a short option token: what follows its dash, up to "="
ShortChars(tok) ==
  IF EqAt(tok) = 0 THEN SubSeq(tok, 2, Len(tok)) ELSE SubSeq(tok, 2, EqAt(tok) - 1)

\* a combined short option token -abc or -abc=value: two or more characters
IsCombined(tok) ==
  Len(tok) > 2 /\ tok[1] = DASH /\ tok[2] # DASH /\ Len(ShortChars(tok)) >= 2

\* what a combined token followed by rest (<<next>> or <<>>) is to give
CombinedExpected(c, tok, rest) ==
  LET hints == ParseHints(c)
      chars == ShortChars(tok)
      vs    == {j \in 1..Len(chars) : <<chars[j]>> \in hints.takesValue}
      eqVal == SubSeq(tok, EqAt(tok) + 1, Len(tok))
      flag(j) == [key |-> <<chars[j]>>, value |-> Scalar(TrueVal)]
  IN  IF vs = {}
      THEN [options |->
              [j \in 1..Len(chars) |->
                 IF j = Len(chars) /\ EqAt(tok) # 0
                 THEN [key |-> <<chars[j]>>, value |-> Scalar(StrVal(eqVal))]
                 ELSE flag(j)],
            consumed |-> FALSE]
      ELSE
        LET v     == CHOOSE j \in vs : \A k \in vs : j <= k
            takes == /\ v = Len(chars) /\ EqAt(tok) = 0
                     /\ rest # <<>>
                     /\ (rest[1] = <<>> \/ rest[1][1] # DASH)
            value == IF v < Len(chars) THEN StrVal(SubSeq(tok, v + 2, Len(tok)))
                     ELSE IF EqAt(tok) # 0 THEN StrVal(eqVal)
                     ELSE IF takes THEN StrVal(rest[1])
                     ELSE TrueVal
        IN  [options |->
               [j \in 1..v |->
                  IF j = v THEN [key |-> <<chars[j]>>, value |-> Scalar(value)]
                  ELSE flag(j)],
             consumed |-> takes]

\* C23: a combined short option token is scanned left to right; the first
\* character that takes a value gets the rest of the token if there is one,
\* else the text after "=", else the next token if that does not start with
\* "-", else true; nothing after it is parsed and every character before it
\* is a true flag; with no such character every character is a true flag,
\* but a "=value" suffix goes to the last character and the next token is
\* left alone.  Checked on a combined token alone or followed by one token.
C23_CombinedShortOptions ==
  \A p \in Inv :
    (/\ pc[p] = "done" /\ parsed[p].ok
     /\ Len(argv[p]) \in 1..2 /\ IsCombined(argv[p][1]))
    => LET e    == CombinedExpected(cli, argv[p][1], Tail(argv[p]))
           opts == parsed[p].options
       IN  /\ Len(opts) >= Len(e.options)
           /\ \A j \in 1..Len(e.options) :
                /\ opts[j].key = e.options[j].key
                /\ opts[j].value.items[1] = e.options[j].value.items[1]
           /\ e.consumed => parsed[p].positionals = <<>> /\ opts = e.options
           /\ Len(argv[p]) = 1 => parsed[p].positionals = <<>> /\ opts = e.options
           /\ (~e.consumed /\ Len(argv[p]) = 2
               /\ (argv[p][2] = <<>> \/ argv[p][2][1] # DASH))
              => parsed[p].positionals = <<argv[p][2]>> /\ opts = e.options

\* C24: within one invocation at most one hook or action body is in progress:
\* a body is started only when the one started before it has completed, so
\* neither two hooks of one list nor two phases overlap.
C24_OneBodyAtATime ==
  [][\A p \in Inv :
       Len(trace'[p]) > Len(trace[p])
       => /\ ~running[p] /\ running'[p]
          /\ Len(trace'[p]) = Len(trace[p]) + 1]_vars

\* the second hook of a list has been started, after the first one returned
C24_Witness ==
  /\ running[1]
  /\ Len(trace[1]) >= 2
  /\ trace[1][Len(trace[1])].index = 2
  /\ trace[1][Len(trace[1]) - 1].index = 1
  /\ trace[1][Len(trace[1])].level = trace[1][Len(trace[1]) - 1].level
  /\ trace[1][Len(trace[1])].fn = trace[1][Len(trace[1]) - 1].fn

\* the aliases and the keys a schema declares
AliasesOf(schema) == {schema[i].alias : i \in 1..Len(schema)} \ {<<>>}

KeysOf(schema) == {schema[i].key : i \in 1..Len(schema)}

\* the canonical key of a key within one schema
CanonicalIn(schema, key) ==
  IF key \in AliasesOf(schema)
  THEN schema[CHOOSE i \in 1..Len(schema) : schema[i].alias = key].key
  ELSE key

\* the values, in order, of the entries of raw whose key stands for k
RECURSIVE ItemsFor(_, _, _)
ItemsFor(raw, schema, k) ==
  IF raw = <<>> THEN <<>>
  ELSE (IF CanonicalIn(schema, Head(raw).key) = k THEN Head(raw).value.items ELSE <<>>)
       \o ItemsFor(Tail(raw), schema, k)

\* a raw record resolves to input: one entry per canonical key, holding every
\* value given under the key or its alias, an array when there are several
ResolvesTo(raw, schema, input) ==
  /\ {input[i].key : i \in 1..Len(input)} =
       {CanonicalIn(schema, raw[i].key) : i \in 1..Len(raw)}
  /\ \A i, j \in 1..Len(input) : input[i].key = input[j].key => i = j
  /\ \A i \in 1..Len(input) :
       /\ input[i].value.items = ItemsFor(raw, schema, input[i].key)
       /\ Len(input[i].value.items) > 1 => input[i].value.isArray

\* C25: every parsed option key goes to exactly one bucket: the command's when
\* it is a short alias of the command, else the global one when it is a global
\* short alias, else the command's when it is a key of the command, else the
\* global one when it is a global key, else the command's, where it is
\* reported as an unknown option with status 1; each bucket's aliases are then
\* resolved to their keys, the values of one key accumulating.
C25_OptionBuckets ==
  \A p \in Inv :
    (pc[p] = "done" /\ parsed[p].ok)
    => LET cs   == cli.nodes["ping"].options
           gs   == cli.globalOptions
           opts == parsed[p].options
           s    == ret[p].separated
           want(key) ==
             IF key \in AliasesOf(cs) THEN "command"
             ELSE IF key \in AliasesOf(gs) THEN "global"
             ELSE IF key \in KeysOf(cs) THEN "command"
             ELSE IF key \in KeysOf(gs) THEN "global"
             ELSE "unknown"
           inCommand(e) == \E i \in 1..Len(s.rawCommandOptions) : s.rawCommandOptions[i] = e
           inGlobal(e)  == \E i \in 1..Len(s.rawGlobalOptions) : s.rawGlobalOptions[i] = e
       IN  /\ Len(s.rawCommandOptions) + Len(s.rawGlobalOptions) = Len(opts)
           /\ \A i \in 1..Len(opts) :
                /\ inCommand(opts[i]) <=> want(opts[i].key) \in {"command", "unknown"}
                /\ inGlobal(opts[i]) <=> want(opts[i].key) = "global"
           /\ (\E i \in 1..Len(opts) : want(opts[i].key) = "unknown")
              <=> /\ ret[p].result.exit = <<1>>
                  /\ ret[p].result.output = printErrorAndExit("Unknown option", "ping")
           /\ ResolvesTo(s.rawCommandOptions, cs, s.commandOptionsInput)
           /\ ResolvesTo(s.rawGlobalOptions, gs, s.globalOptionsInput)

\* --v=y -p=x --port=y --out=y: v, a key of ping, is the global alias of
\* verbose and goes to the global options; p, an alias in both schemas, goes
\* to ping's and is merged with port; out, a key of both, goes to ping's
C25_Witness ==
  /\ pc[1] = "done"
  /\ argv[1] = <<Long(<<"v">>) \o <<EQ>> \o t_y, Short(<<"p">>) \o <<EQ>> \o t_x,
                 Long(k_port) \o <<EQ>> \o t_y>>
  /\ ret[1].separated.globalOptionsInput =
       <<[key |-> k_verbose, value |-> Scalar(StrVal(t_y))]>>
  /\ ret[1].separated.commandOptionsInput =
       <<[key |-> k_port,
          value |-> [isArray |-> TRUE, items |-> <<StrVal(t_x), StrVal(t_y)>>]]>>

\* what token.get() gives in the state: the value, or the error it throws
Read(p, tok) == Get(maps, als[p], tok)

\* what token.get() gives in the next state
ReadNext(p, tok) == Get(maps', als'[p], tok)

OutsideError ==
  [ok |-> FALSE, value |-> NO_DEFAULT,
   error |-> "Cannot access context outside of CLI execution"]

\* C26: outside the store of an invocation (before it starts, after it is
\* done) get and set of a context token fail with an error and change
\* nothing.  Inside: when the store is entered a token nothing has set reads
\* as its declared default, or fails with Context not set when it has none;
\* get returns what the token reads as and changes nothing; a set makes the
\* token read as the value set and changes what no other token reads as; and
\* nothing but a set by the invocation changes what a token reads as.
C26_ContextTokens ==
  [][\A p \in Inv :
       /\ (ret'[p] # ret[p] /\ pc[p] # "hooks")
          => ret'[p].r = OutsideError /\ maps' = maps
       /\ pc'[p] \in {"idle", "done"}
          => \A tok \in Tokens : ReadNext(p, tok) = OutsideError
       /\ (pc[p] # "hooks" /\ pc'[p] = "hooks")
          => /\ ReadNext(p, "user") =
                  [ok |-> FALSE, value |-> NO_DEFAULT, error |-> "Context not set"]
             /\ ReadNext(p, "fallback") = [ok |-> TRUE, value |-> DefaultValue, error |-> ""]
       /\ (ret'[p] # ret[p] /\ pc[p] = "hooks" /\ ret'[p].op = "get")
          => /\ ret'[p].r = Read(p, ret'[p].tok)
             /\ ret'[p].r.ok \/ ret'[p].r.error = "Context not set"
             /\ maps' = maps
       /\ (ret'[p] # ret[p] /\ pc[p] = "hooks" /\ ret'[p].op = "set")
          => /\ ret'[p].r.ok
             /\ ReadNext(p, ret'[p].tok) = [ok |-> TRUE, value |-> ret'[p].value, error |-> ""]
             /\ \A t \in Tokens \ {ret'[p].tok} : ReadNext(p, t) = Read(p, t)
       /\ (pc[p] = "hooks" /\ pc'[p] = "hooks" /\ als'[p] = als[p])
          => \/ \A t \in Tokens : ReadNext(p, t) = Read(p, t)
             \/ /\ running[p]
                /\ \E tok \in Tokens :
                     /\ ReadNext(p, tok).ok
                     /\ ReadNext(p, tok).value.kind = "user" /\ ReadNext(p, tok).value.by = p
                     /\ \A t \in Tokens \ {tok} : ReadNext(p, t) = Read(p, t)]_vars

\* inside the action, get has returned the value a hook set under the user
\* token, the token with a default still reads as its default
C26_Witness ==
  /\ pc[1] = "hooks" /\ running[1] /\ pos[1].phase = "action"
  /\ ret[1] # <<>>
  /\ ret[1].op = "get" /\ ret[1].tok = "user"
  /\ ret[1].r.ok /\ ret[1].r.value.kind = "user"
  /\ Read(1, "fallback") = [ok |-> TRUE, value |-> DefaultValue, error |-> ""]

\* the pre hook p is in throws an Error with message boom, and run takes it
\* for an abort with that reason and goes on with the post phases
ThrowTaken(p) ==
  /\ PreHookEnd(p)
  /\ aborted'[p]
  /\ abortReason'[p] = Err("boom")
  /\ pos'[p].phase \in PostPhases \cup {"exit"}

\* C27: a preAction hook of the CLI, of a group or of the command that throws
\* is taken for an abort whose reason is the message of the exception: run goes
\* on with the post phases, calling neither a further pre hook nor the action
\* but every postAction hook, each with success false and aborted true, and
\* exits with status 1.
C27_ThrowIsAbort ==
  /\ [](\A p \in Inv :
          (MayReturn(p) /\ pos[p].phase \in PrePhases) => ENABLED ThrowTaken(p))
  /\ [][\A p \in Inv :
          (aborted[p] /\ abortReason[p] = Err("boom"))
          => /\ aborted'[p] /\ abortReason'[p] = abortReason[p]
             /\ trace'[p] # trace[p]
                => /\ IsPost(trace'[p][Len(trace'[p])])
                   /\ trace'[p][Len(trace'[p])].result =
                        [success |-> FALSE, error |-> Err("boom"), aborted |-> TRUE]
             /\ pc'[p] = "done"
                => /\ exit'[p] = <<1>>
                   /\ SelectSeq(CallsOf(p), IsPost)
                        = HookCalls(cli, PostLevels(cli, command[p]), "postAction")]_vars

\* a hook of the group db threw: the invocation is done with status 1, the
\* command's pre hooks and the action were not called, post hooks were
C27_Witness ==
  /\ pc[1] = "done" /\ exit[1] = <<1>>
  /\ aborted[1] /\ abortReason[1] = Err("boom")
  /\ LET pre == SelectSeq(CallsOf(1), IsPre)
     IN  pre # <<>> /\ pre[Len(pre)].level = "db"
  /\ SelectSeq(CallsOf(1), IsPost) # <<>>
  /\ \A i \in 1..Len(trace[1]) : ~IsAction(trace[1][i])

\* token i of av has left a trace in the result r of parseArgv: it is a
\* positional, the value of an option, or it names an option key (a long
\* option by its name or the option the name abbreviates, a short option
\* token by one of its characters)
Recorded(c, av, i, r) ==
  LET tok == av[i]
  IN  \/ tok \in Range(r.positionals)
      \/ \E j \in 1..Len(r.options) :
           \E k \in 1..Len(r.options[j].value.items) :
             r.options[j].value.items[k] = StrVal(tok)
      \/ /\ Len(tok) > 2 /\ SubSeq(tok, 1, 2) = DD
         /\ \E j \in 1..Len(r.options) :
              \/ r.options[j].key = SubSeq(tok, 3, Len(tok))
              \/ r.options[j].key =
                   CanonicalKey(LongName(tok), ParseHints(c).knownOptions)
      \/ /\ Len(tok) > 1 /\ tok[1] = DASH /\ tok[2] # DASH
         /\ \E n \in 2..Len(tok) : \E j \in 1..Len(r.options) : r.options[j].key = <<tok[n]>>

\* C28: parseArgv loses no token: every token before the first "--" is in the
\* result as a positional, as an option key or as an option value.
C28_NoTokenLost ==
  \A p \in Inv :
    (pc[p] = "done" /\ parsed[p].ok)
    => \A i \in 1..Len(argv[p]) :
         (\A j \in 1..i : argv[p][j] # DD) => Recorded(cli, argv[p], i, parsed[p])

\* what the positionals of the command line of p resolve to
Resolution(p) ==
  matchCommand(cli.nodes, cli.commands, parseArgv(argv[p], ParseHints(cli)).positionals)

\* run gets as far as resolving the command: no help or version token before
\* the first --, and parseArgv succeeds
Resolved(p) ==
  /\ pc[p] \notin {"off", "idle"}
  /\ ~HelpAsked(argv[p]) /\ ~BeforeDD(argv[p], T_version)
  /\ parseArgv(argv[p], ParseHints(cli)).ok

\* C29: when the positionals resolve to a group without a default command,
\* whether or not positionals are left over after its path, run prints the
\* help of that group and exits with status 0; it creates no context store,
\* validates nothing and calls no hook and no action.
C29_GroupWithoutDefault ==
  \A p \in Inv :
    (/\ Resolved(p)
     /\ Resolution(p).type = "group"
     /\ cli.nodes[Resolution(p).node].defaultCommand = NoNode)
    => /\ pc[p] = "done" /\ exit[p] = <<0>>
       /\ output[p] = Output("help", Resolution(p).node)
       /\ trace[p] = <<>> /\ validations[p] = <<>>
       /\ als[p] = <<>> /\ ~Includes(calls[p], "als.run")
       /\ \A m \in MapIds : maps[m] = EmptyStore

\* server db nope: the group db, nope left over; its help, status 0
C29_Witness ==
  /\ pc[1] = "done" /\ argv[1] = <<t_server, t_db, t_nope>>
  /\ Resolution(1).node = "db" /\ Resolution(1).remainingArgs = <<t_nope>>
  /\ output[1] = Output("help", "db") /\ exit[1] = <<0>>

\* the groups the segments of a path that leads to a group name, outermost
\* first, the group the path leads to included
PathGroups(c, path) ==
  [i \in 1..Len(path) |-> findCommandAtPath(c.nodes, c.commands, Slice(path, 0, i)).node]

\* C30: when the positionals resolve to a group with a default command, run
\* executes that command with the path of the group as its full path: the
\* positionals after the path of the group, a first one that named no
\* sub-command included, fill the arguments of the default command and then
\* its rest, and the hooks called are those of the CLI, of every group on the
\* path, the group itself included, and of the default command, around the
\* action, the pre hooks from the outside in and the post hooks back out.
C30_DefaultCommandOfGroup ==
  \A p \in Inv :
    (/\ Resolved(p)
     /\ Resolution(p).type = "group"
     /\ cli.nodes[Resolution(p).node].defaultCommand # NoNode)
    => LET m      == Resolution(p)
           D      == cli.nodes[m.node].defaultCommand
           groups == PathGroups(cli, m.pathArgs)
           fields == RequiredFields(cli.nodes[D].args) \o OptionalFields(cli.nodes[D].args)
           n      == Min(Len(fields), Len(m.remainingArgs))
       IN  /\ command[p] = D
           /\ fullPath[p] = m.pathArgs
           /\ groups[Len(groups)] = m.node
           /\ pc[p] = "hooks"
              => /\ hookInput[p].fullPath = m.pathArgs
                 /\ hookInput[p].args =
                      [i \in 1..n |-> [key |-> fields[i], value |-> m.remainingArgs[i]]]
                 /\ restValues[p] = SubSeq(m.remainingArgs, n + 1, Len(m.remainingArgs))
                 /\ groupsInPath[p] = groups
           /\ (Exited(p) /\ ~aborted[p])
              => CallsOf(p) =
                   HookCalls(cli, <<"cli">> \o groups \o <<D>>, "preAction")
                   \o <<[fn |-> "action", level |-> D, index |-> 0]>>
                   \o HookCalls(cli, <<D>> \o Reverse(groups) \o <<"cli">>, "postAction")

\* server db x y: status ran as the default command of db with name = x and
\* rest = y, inside the hooks of the CLI, of server and of db
C30_Witness ==
  /\ Exited(1) /\ ~aborted[1]
  /\ argv[1] = <<t_server, t_db, t_x, t_y>>
  /\ command[1] = "status" /\ fullPath[1] = <<t_server, t_db>>
  /\ hookInput[1].args = <<[key |-> k_name, value |-> t_x]>>
  /\ restValues[1] = <<t_y>>
  /\ \E i \in 1..Len(trace[1]) : trace[1][i].fn = "postAction" /\ trace[1][i].level = "db"

====
